---- MODULE Spec2Model ----
(***************************************************************************)
(* A model of the working-copy update editor of libsvn_wc                  *)
(* (subversion/libsvn_wc/update_editor.c).  One action per editor          *)
(* callback; each callback is an operator from editor state to editor      *)
(* state, translated from the C function of the same name.                 *)
(*                                                                         *)
(* A path is a sequence of names relative to the anchor (the anchor is the *)
(* empty sequence).  A URL is a sequence of segments.  The entry of a      *)
(* directory in its parent and its THIS_DIR entry are kept as one record;  *)
(* the field adm says whether the directory has an administrative area.    *)
(***************************************************************************)
EXTENDS Integers, Sequences, FiniteSets, TLC

\* Depth of the modelled tree below the anchor.
MaxDepth == 1
\* Highest revision number; the working copy starts at revision 1.
MaxRev == 2
\* Number of files the drive keeps open at a time.
MaxOpenFiles == 1
\* Number of files the drive with put-off closes keeps open at a time.
MaxFilesTogether == 2
\* SVN_INVALID_REVNUM.
SVN_INVALID_REVNUM == -1

NoURL == <<>>
\* The repository root recorded for the anchor, and URLs inside and outside
\* that repository.
ReposRoot == <<"repo">>
RootURL == <<"repo", "trunk">>
SwitchRoot == <<"repo", "branch">>
ForeignURL == <<"other", "branch">>

----------------------------------------------------------------------------
\* Paths

DirPaths == UNION {[1..n -> {"d"}] : n \in 0..MaxDepth}
\* A second file of the anchor directory.
ExtraFile == <<"g">>
FilePaths == {Append(p, "f") : p \in DirPaths} \cup {ExtraFile}
Paths == DirPaths \cup FilePaths
\* A child name that escapes its parent.
EscPaths == {Append(p, "..") : p \in DirPaths}
AllPaths == Paths \cup EscPaths

svn_dirent_dirname(p) == IF p = <<>> THEN <<>> ELSE SubSeq(p, 1, Len(p) - 1)
svn_dirent_basename(p) == IF p = <<>> THEN "" ELSE p[Len(p)]
svn_dirent_join(p, name) == Append(p, name)

\* p is q or lies below q.
IsPrefix(q, p) == Len(q) <= Len(p) /\ SubSeq(p, 1, Len(q)) = q
StrictlyBelow(p, q) == IsPrefix(q, p) /\ p # q
Children(p) == {c \in Paths : c # <<>> /\ svn_dirent_dirname(c) = p}
\* p and all its ancestors up to the anchor.
SelfAndAncestors(p) == {SubSeq(p, 1, n) : n \in 0..Len(p)}

\* svn_dirent_is_under_root: the joined path stays below the base path.
svn_dirent_is_under_root(base, name) == name # ".."

----------------------------------------------------------------------------
\* Entries

\* Checksums: none, that of the text the checkout brought, that of the
\* text the edit brings, that of the empty text, and one that is none of
\* these.
NoChecksum == "none"
Checksums == {"c1", "c2", "empty", "cx"}
\* The checksums a producer may give: of the base it made its delta
\* against, and of the text it expects as the result.
BaseChecksums == {NoChecksum, "c1", "cx"}
ExpectedChecksums == {NoChecksum, "c2", "cx"}
\* The most windows with data in one delta.
MaxWindows == 1
\* Properties: the nodes have one regular property, PropName; a change sets
\* it to a value or, with the value NoValue, deletes it.
PropName == "p"
NoValue == "novalue"
PropValues == {"v2"}
\* The most property changes the producer sends in one edit.
MaxPropChanges == 1

NoEntry ==
  [present |-> FALSE, kind |-> "none", revision |-> SVN_INVALID_REVNUM,
   url |-> NoURL, schedule |-> "normal", copied |-> FALSE,
   copyfrom_url |-> NoURL, copyfrom_rev |-> SVN_INVALID_REVNUM,
   deleted |-> FALSE, absent |-> FALSE, incomplete |-> FALSE,
   depth |-> "infinity", adm |-> FALSE, checksum |-> NoChecksum,
   file_external_path |-> FALSE, cmt_rev |-> SVN_INVALID_REVNUM]

\* svn_wc__entry_modify: the fields of upd overwrite those of the entry; a
\* missing entry is created.
fold_entry(e, upd) ==
  [k \in DOMAIN NoEntry |->
     IF k = "present" THEN TRUE
     ELSE IF k \in DOMAIN upd THEN upd[k] ELSE e[k]]

svn_wc__entry_modify(ents, p, upd) ==
  [ents EXCEPT ![p] = fold_entry(ents[p], upd)]

\* svn_wc__entry_remove, with the entries of everything below.
svn_wc__entry_remove(ents, p) ==
  [q \in Paths |-> IF IsPrefix(p, q) THEN NoEntry ELSE ents[q]]

NodeKind(p) == IF p \in DirPaths THEN "dir" ELSE "file"

CleanEntry(p) ==
  [NoEntry EXCEPT !.present = TRUE, !.kind = NodeKind(p), !.revision = 1,
                  !.url = RootURL \o p, !.adm = (p \in DirPaths),
                  !.checksum = IF p \in DirPaths THEN NoChecksum ELSE "c1",
                  !.cmt_rev = 1]

NoDisk == [kind |-> "none", text |-> "none"]
CleanDisk(p) ==
  IF p \in DirPaths THEN [kind |-> "dir", text |-> "none"]
  ELSE [kind |-> "file", text |-> "base"]

----------------------------------------------------------------------------
VARIABLES
  eb,             \* struct edit_baton
  skipped_trees,  \* eb->skipped_trees
  deleted_trees,  \* eb->deleted_trees
  entries,        \* the entries of the working copy
  disk,           \* the working files and directories
  conflicts,      \* recorded tree conflicts, property and text conflicts
  bump,           \* struct bump_dir_info, by directory path
  dirs,           \* the open struct dir_baton's, innermost last
  closed_dirs,    \* the struct dir_baton's that were closed while a file
                  \* baton pointed to them and whose pool still lives
  files,          \* the open struct file_baton's
  logfiles,       \* the log files of each directory, by log number
  notifications,  \* what the notify callback received
  pc,             \* where the drive stands
  err,            \* the error the last callback returned
  pristine,       \* the text bases, and the new text bases in the temporary
                  \* area
  hist,           \* history: the working copy before the edit, what the
                  \* drive did so far
  auth            \* the SSL server-trust file provider: the parameters of
                  \* the authentication request, the stored credentials
                  \* file and what the provider returned

vars == <<eb, skipped_trees, deleted_trees, entries, disk, conflicts, bump,
          dirs, closed_dirs, files, logfiles, notifications, pc, err,
          pristine, hist, auth>>

\* The variables of the update editor.
editor_vars == <<eb, skipped_trees, deleted_trees, entries, disk, conflicts,
                 bump, dirs, closed_dirs, files, logfiles, notifications, pc,
                 err, pristine, hist>>

\* The state as one record, the form the callbacks work on.
St ==
  [eb |-> eb, skipped_trees |-> skipped_trees, deleted_trees |-> deleted_trees,
   entries |-> entries, disk |-> disk, conflicts |-> conflicts, bump |-> bump,
   dirs |-> dirs, closed_dirs |-> closed_dirs, files |-> files,
   logfiles |-> logfiles,
   notifications |-> notifications, pc |-> pc, err |-> err,
   pristine |-> pristine,
   \* what the callback writes and runs is recorded from its start
   hist |-> [hist EXCEPT !.logged = <<>>]]

Commit(t) ==
  /\ eb' = t.eb
  /\ skipped_trees' = t.skipped_trees
  /\ deleted_trees' = t.deleted_trees
  /\ entries' = t.entries
  /\ disk' = t.disk
  /\ conflicts' = t.conflicts
  /\ bump' = t.bump
  /\ dirs' = t.dirs
  /\ closed_dirs' = t.closed_dirs
  /\ files' = t.files
  /\ logfiles' = t.logfiles
  /\ notifications' = t.notifications
  /\ pc' = t.pc
  /\ err' = t.err
  /\ pristine' = t.pristine
  /\ hist' = t.hist
  /\ auth' = auth

----------------------------------------------------------------------------
\* The edit baton's path sets (update_editor.c 253-324)

\* A remember_skipped_tree that records the path as a deleted tree as well.
remember_skipped_as_deleted(s, path) ==
  [s EXCEPT !.skipped_trees = @ \cup {path},
            !.deleted_trees = @ \cup {path}]

remember_skipped_tree(s, path) ==
  [s EXCEPT !.skipped_trees = @ \cup {path}]

remember_deleted_tree(s, path) ==
  [s EXCEPT !.deleted_trees = @ \cup {path}]

in_deleted_tree(s, path, include_root) ==
  LET start == IF include_root THEN path ELSE svn_dirent_dirname(path)
      walk  == IF include_root \/ path # <<>> THEN SelfAndAncestors(start)
               ELSE {}
  IN  walk \cap s.deleted_trees # {}

in_skipped_tree(s, path) ==
  SelfAndAncestors(path) \cap s.skipped_trees # {}

\* The notify callback: the notifications received, with multiplicity.
\* An editor that was given no notification function.
notify_nothing(s, action, path) == s

notify(s, action, path) ==
  LET n == [action |-> action, path |-> path]
  IN  [s EXCEPT !.notifications =
         IF n \in DOMAIN @ THEN [@ EXCEPT ![n] = @ + 1]
         ELSE [m \in DOMAIN @ \cup {n} |-> IF m = n THEN 1 ELSE @[m]]]

\* History: a tree conflict was raised on path by the running edit.
raised_tree_conflict(s, path) == [s EXCEPT !.hist.raised = @ \cup {path}]

\* An error return: the drive ends, what was done stays done.
fail(s, code) == [s EXCEPT !.pc = "failed", !.err = code]

----------------------------------------------------------------------------
\* The log engine

\* Whether a working file below p carries local modifications.
HasLocalText(dsk, p) ==
  \E q \in Paths : IsPrefix(p, q) /\ dsk[q].kind = "file" /\ dsk[q].text = "local"

\* The delete-entry command: the entry goes with everything below it; the
\* working files go too, except locally modified ones (left_local_mod).
log_do_delete_entry(s, path) ==
  [s EXCEPT
     !.entries = svn_wc__entry_remove(@, path),
     !.disk = [q \in Paths |->
                 IF IsPrefix(path, q) /\ ~HasLocalText(@, q)
                 THEN NoDisk ELSE @[q]]]

\* fold_scheduling for an entry_modify of the schedule that is not forced:
\* an addition over an entry scheduled for deletion is a replacement.
fold_scheduling(e, schedule) ==
  IF schedule = "add" /\ e.present /\ e.schedule = "delete" THEN "replace"
  ELSE schedule

\* One loggy command, executed.  A move finds its source in the temporary
\* area (src: the new text base "tmp" or the copied text base "copied") and
\* puts it in the text base or the revert base (dst); a remove deletes a
\* temporary file.
log_do_command(s, c) ==
  CASE c.op = "modify_entry" ->
         [s EXCEPT !.entries = svn_wc__entry_modify(@, c.path, c.upd)]
    [] c.op = "delete_entry" -> log_do_delete_entry(s, c.path)
    [] c.op = "add_tree_conflict" ->
         [s EXCEPT !.conflicts.tree =
            [q \in Paths |-> IF q = c.path THEN c.reason ELSE @[q]]]
    [] c.op = "copy" ->
         [s EXCEPT !.disk[c.path] = [kind |-> "file", text |-> c.text]]
    [] c.op = "install_props" ->
         IF c.path \in Paths
         THEN [s EXCEPT !.pristine.props[c.path] = c.value]
         ELSE s
    [] c.op = "move_text_base" ->
         IF c.path \in s.pristine[c.src]
         THEN [s EXCEPT !.pristine[c.dst][c.path] = c.checksum,
                        !.pristine[c.src] = @ \ {c.path}]
         ELSE s
    [] c.op = "move_base_to_revert" ->
         IF s.pristine.base[c.path] # NoChecksum
         THEN [s EXCEPT !.pristine.revert[c.path] = s.pristine.base[c.path],
                        !.pristine.base[c.path] = NoChecksum]
         ELSE s
    [] c.op = "revert_props_create" ->
         [s EXCEPT !.pristine.revert_props[c.path] = s.pristine.props[c.path],
                   !.pristine.props[c.path] = NoValue]
    [] c.op = "schedule_entry" ->
         [s EXCEPT !.entries = svn_wc__entry_modify(@, c.path,
            [c.upd EXCEPT !.schedule = fold_scheduling(s.entries[c.path], @)])]
    [] c.op = "remove" ->
         [s EXCEPT !.pristine[c.store] = @ \ {c.path}]
    [] c.op = "text_conflict" ->
         [s EXCEPT !.conflicts.text = @ \cup {c.path}]
    [] OTHER -> s

RECURSIVE log_do_commands(_, _)
log_do_commands(s, cmds) ==
  IF cmds = <<>> THEN s
  ELSE log_do_commands(log_do_command(s, Head(cmds)), Tail(cmds))

Min(S) == CHOOSE x \in S : \A y \in S : x <= y

RECURSIVE log_do_files(_, _)
log_do_files(s, lf) ==
  IF DOMAIN lf = {} THEN s
  ELSE LET n == Min(DOMAIN lf)
       IN  log_do_files(log_do_commands(s, lf[n]),
                        [k \in DOMAIN lf \ {n} |-> lf[k]])

\* The commands of log files, in the order of the numbers of the files.
RECURSIVE CatLogs(_)
CatLogs(lf) ==
  IF DOMAIN lf = {} THEN <<>>
  ELSE LET n == Min(DOMAIN lf)
       IN  lf[n] \o CatLogs([k \in DOMAIN lf \ {n} |-> lf[k]])

\* svn_wc__write_log: the commands become log file number n of the directory.
\* History: the file written.
svn_wc__write_log(s, dir, n, cmds) ==
  [s EXCEPT !.logfiles[dir] =
              [k \in DOMAIN @ \cup {n} |-> IF k = n THEN cmds ELSE @[k]],
            !.hist.logged =
              Append(@, [e |-> "write", dir |-> dir, number |-> n,
                         cmds |-> cmds])]

\* svn_wc__run_log: the directory's log files are executed in the order of
\* their numbers and removed.  History: the commands executed.
svn_wc__run_log(s, dir) ==
  [log_do_files(s, s.logfiles[dir])
     EXCEPT !.logfiles[dir] = <<>>,
            !.hist.logged =
              Append(@, [e |-> "run", dir |-> dir, number |-> -1,
                         cmds |-> CatLogs(s.logfiles[dir])])]

\* A flush_log that writes nothing and keeps the buffer.
flush_log_nothing(s, i) == s

\* flush_log on the dir baton at position i of the stack.
flush_log(s, i) ==
  LET db == s.dirs[i]
  IN  IF db.log_accum # <<>>
      THEN [svn_wc__write_log(s, db.path, db.log_number, db.log_accum)
              EXCEPT !.dirs[i].log_number = @ + 1,
                     !.dirs[i].log_accum = <<>>]
      ELSE s

----------------------------------------------------------------------------
\* The working copy before the edit.  At most one node departs from a
\* pristine checkout at revision 1; prof names how.  Under "sdel_tc" the
\* node is a directory scheduled for deletion whose file was the victim of
\* a tree conflict before it was deleted.

FileProfiles == {"mod", "none", "unver", "sdel", "srepl", "sadd", "tc",
                 "pconf", "tconf", "absent", "deleted", "missing",
                 "obstructed"}
DirProfiles == {"none", "unver", "sdel", "srepl", "sadd", "tc", "pconf",
                "absent", "deleted", "missing", "incomplete", "excluded",
                "obstructed", "sdel_tc"}
\* Profiles under which the node and everything below it is scheduled for
\* deletion.
DeletedProfiles == {"sdel", "sdel_tc"}
\* Profiles under which nothing below the node is versioned.
HollowProfiles == {"none", "unver", "srepl", "sadd", "absent", "deleted",
                   "missing", "excluded", "obstructed"}

Anomalies ==
  {[path |-> <<>>, prof |-> "clean"]}
  \cup {[path |-> p, prof |-> x] : p \in FilePaths \ {ExtraFile},
                                    x \in FileProfiles}
  \cup {[path |-> p, prof |-> x] : p \in DirPaths \ {<<>>}, x \in DirProfiles}

ProfileEntry(p, prof) ==
  LET c == CleanEntry(p)
  IN  CASE prof \in {"none", "unver", "obstructed"} -> NoEntry
        [] prof \in DeletedProfiles -> [c EXCEPT !.schedule = "delete"]
        [] prof = "srepl" -> [c EXCEPT !.schedule = "replace"]
        [] prof = "sadd" -> [c EXCEPT !.schedule = "add", !.revision = 0,
                                      !.checksum = NoChecksum,
                                      !.cmt_rev = SVN_INVALID_REVNUM]
        [] prof = "absent" -> [c EXCEPT !.absent = TRUE, !.adm = FALSE,
                                        !.checksum = NoChecksum]
        [] prof = "deleted" -> [c EXCEPT !.deleted = TRUE, !.adm = FALSE,
                                         !.checksum = NoChecksum]
        [] prof = "incomplete" -> [c EXCEPT !.incomplete = TRUE]
        [] prof = "excluded" -> [c EXCEPT !.depth = "exclude", !.adm = FALSE]
        [] prof = "shallow" -> [c EXCEPT !.depth = "files"]
        [] prof = "sdel_kept" -> [c EXCEPT !.schedule = "delete"]
        [] prof = "fext" -> [c EXCEPT !.file_external_path = TRUE]
        [] OTHER -> c

ProfileDisk(p, prof) ==
  CASE prof \in {"none", "absent", "deleted", "missing", "excluded"}
         \/ (prof \in DeletedProfiles /\ p \in FilePaths) -> NoDisk
    [] prof \in DeletedProfiles /\ p \in DirPaths -> CleanDisk(p)
    [] prof = "obstructed" ->
         IF p \in DirPaths THEN [kind |-> "file", text |-> "local"]
         ELSE [kind |-> "dir", text |-> "none"]
    [] prof \in {"mod", "srepl", "sadd", "unver", "sdel_kept"}
         /\ p \in FilePaths ->
         [kind |-> "file", text |-> "local"]
    [] OTHER -> CleanDisk(p)

\* extra: the working copy has the second file of the anchor directory.
InitEntries(a, extra) ==
  [q \in Paths |->
     IF q = ExtraFile /\ ~extra THEN NoEntry
     ELSE IF q = a.path /\ a.prof # "clean" THEN ProfileEntry(q, a.prof)
     ELSE IF StrictlyBelow(q, a.path) /\ a.prof \in HollowProfiles THEN NoEntry
     ELSE IF StrictlyBelow(q, a.path) /\ a.prof \in DeletedProfiles
       THEN [CleanEntry(q) EXCEPT !.schedule = "delete"]
     ELSE CleanEntry(q)]

InitDisk(a, extra) ==
  [q \in Paths |->
     IF q = ExtraFile /\ ~extra THEN NoDisk
     ELSE IF q = a.path /\ a.prof # "clean" THEN ProfileDisk(q, a.prof)
     ELSE IF StrictlyBelow(q, a.path) /\ a.prof \in HollowProfiles THEN NoDisk
     ELSE IF StrictlyBelow(q, a.path) /\ a.prof \in DeletedProfiles
             /\ q \in FilePaths
       THEN NoDisk
     ELSE CleanDisk(q)]

\* The text base of every file with an entry that came from the repository;
\* a file that was replaced without history has its old text base as its
\* revert base and no text base.  tmp, copied and copied_working are the
\* files of the temporary area: the new text bases, the copied text bases
\* and the copied working texts.
InitPristine(a, extra) ==
  [base |-> [q \in FilePaths |->
               IF InitEntries(a, extra)[q].schedule = "replace"
               THEN NoChecksum ELSE InitEntries(a, extra)[q].checksum],
   revert |-> [q \in FilePaths |->
                 IF InitEntries(a, extra)[q].schedule = "replace"
                 THEN InitEntries(a, extra)[q].checksum ELSE NoChecksum],
   tmp |-> {},
   copied |-> {},
   copied_working |-> {},
   props |-> [q \in Paths |-> IF InitEntries(a, extra)[q].present THEN "v1"
                              ELSE NoValue],
   revert_props |-> [q \in Paths |-> NoValue]]

InitConflicts(a) ==
  [tree |-> [q \in Paths |->
               IF q = a.path /\ a.prof = "tc" THEN "edited"
               ELSE IF a.prof = "sdel_tc" /\ q \in FilePaths
                       /\ StrictlyBelow(q, a.path) THEN "edited"
               ELSE "none"],
   prop |-> IF a.prof = "pconf" THEN {a.path} ELSE {},
   text |-> IF a.prof = "tconf" THEN {a.path} ELSE {}]

Targets == {"", "d", "f"}
TargetPath(target) == IF target = "" THEN <<>> ELSE <<target>>
SwitchURLs(target) ==
  {NoURL, IF target = "" THEN SwitchRoot ELSE Append(SwitchRoot, "s"),
   ForeignURL}

svn_uri_is_ancestor(a, b) == IsPrefix(a, b)

\* The edit baton that was never constructed: *editor and *edit_baton are left
\* as the caller had them.
NoEditor ==
  [target |-> "", switch_url |-> NoURL,
   target_revision |-> SVN_INVALID_REVNUM,
   root_opened |-> FALSE, target_deleted |-> FALSE,
   allow_unver_obstructions |-> FALSE,
   requested_depth |-> "unknown", depth_is_sticky |-> FALSE,
   fetch_func |-> "null"]

\* make_editor without the test of the switch URL.
make_editor_any_url(target, switch_url, allow, repos_root, depth, depth_is_sticky, fetch_func) ==
  [err |-> "none",
   eb |-> [target |-> target, switch_url |-> switch_url,
           target_revision |-> SVN_INVALID_REVNUM,
           root_opened |-> FALSE, target_deleted |-> FALSE,
           allow_unver_obstructions |-> allow,
           requested_depth |-> depth,
           depth_is_sticky |-> depth_is_sticky /\ depth # "unknown",
           fetch_func |-> fetch_func]]

\* make_editor: the switch URL is tested against the repository root of the
\* anchor before the edit baton is constructed.  An unknown depth cannot be
\* sticky.  fetch_func is the callback that fetches a file from the
\* repository: "null" when the caller gave none, "fails" when it returns an
\* error, otherwise the checksum of the text it delivers.
make_editor(target, switch_url, allow, repos_root, depth, depth_is_sticky, fetch_func) ==
  IF switch_url # NoURL /\ repos_root # NoURL
     /\ ~svn_uri_is_ancestor(repos_root, switch_url)
  THEN [err |-> "invalid_switch", eb |-> NoEditor]
  ELSE [err |-> "none",
        eb |-> [target |-> target, switch_url |-> switch_url,
                target_revision |-> SVN_INVALID_REVNUM,
                root_opened |-> FALSE, target_deleted |-> FALSE,
                allow_unver_obstructions |-> allow,
                requested_depth |-> depth,
                depth_is_sticky |-> depth_is_sticky /\ depth # "unknown",
                fetch_func |-> fetch_func]]

NoOp == [op |-> "none", path |-> <<>>]
\* No window was given to the step.
NoWindow == [window |-> "none", apply_err |-> FALSE]

\* No authentication request is under way.
NoAuth == [pc |-> "unused"]

\* The fetch callbacks a caller may give to make_editor, and the one of a
\* client whose repository access works: it delivers the text the checkout
\* brought.
FetchFuncs == {"null", "fails", "c1"}
DefaultFetch == "c1"

\* The update editor after make_editor on the working copy with anomaly a,
\* for a producer whose edit names the paths of tree.
EditorStartWith(a, target, switch_url, allow, tree, extra, depth, sticky, fetch_func) ==
    /\ eb = make_editor(target, switch_url, allow, ReposRoot, depth,
                        sticky, fetch_func).eb
    /\ skipped_trees = {}
    /\ deleted_trees = {}
    /\ entries = InitEntries(a, extra)
    /\ disk = InitDisk(a, extra)
    /\ conflicts = InitConflicts(a)
    /\ bump = <<>>
    /\ dirs = <<>>
    /\ closed_dirs = <<>>
    /\ files = {}
    /\ logfiles = [p \in DirPaths |-> <<>>]
    /\ notifications = <<>>
    /\ pc = IF make_editor(target, switch_url, allow, ReposRoot, depth,
                           sticky, fetch_func).err = "none"
            THEN "start" ELSE "failed"
    /\ err = make_editor(target, switch_url, allow, ReposRoot, depth,
                         sticky, fetch_func).err
    /\ pristine = InitPristine(a, extra)
    /\ hist = [wc0 |-> InitEntries(a, extra), raised |-> {}, visited |-> {},
               driven |-> {},
               deleted |-> {}, last |-> NoOp, given |-> NoChecksum,
               propchanges |-> 0, switch_url |-> switch_url,
               completed |-> <<>>, logged |-> <<>>, tree |-> tree,
               opened |-> {},
               window |-> NoWindow]

EditorStart(a, target, switch_url, allow, tree, extra, depth, sticky) ==
    EditorStartWith(a, target, switch_url, allow, tree, extra, depth, sticky,
                    DefaultFetch)

\* The state after make_editor; the session asks for no server trust.
Start(a, target, switch_url, allow, tree, extra, depth, depth_is_sticky) ==
    /\ EditorStart(a, target, switch_url, allow, tree, extra, depth,
                   depth_is_sticky)
    /\ auth = NoAuth

\* The working copy has one file in each directory, and so has the edit.
Init ==
  \E a \in Anomalies, target \in Targets :
  \E switch_url \in SwitchURLs(target) :
  \E allow \in (IF a.prof = "unver" THEN BOOLEAN ELSE {FALSE}) :
    Start(a, target, switch_url, allow, Paths \ {ExtraFile}, FALSE,
          "unknown", FALSE)

----------------------------------------------------------------------------
\* Reading entries

Ent(s, p) == IF p \in Paths THEN s.entries[p] ELSE NoEntry

\* svn_wc__entry_is_hidden
entry_is_hidden(e) ==
  (e.deleted \/ e.absent \/ e.depth = "exclude")
  /\ e.schedule \notin {"add", "replace"}

\* svn_wc__get_entry: the entry, or NoEntry where the C function yields
\* NULL or an error (no entry, a hidden entry not asked for, another kind).
svn_wc__get_entry(s, p, allow_hidden, kind) ==
  LET e == Ent(s, p)
  IN  IF ~e.present THEN NoEntry
      ELSE IF ~allow_hidden /\ entry_is_hidden(e) THEN NoEntry
      ELSE IF kind # "unknown" /\ e.kind # kind THEN NoEntry
      ELSE e

get_entry_url(s, p, kind) == svn_wc__get_entry(s, p, FALSE, kind).url

\* svn_wc__adm_missing: a directory entry that is not hidden and has no
\* administrative area.
svn_wc__adm_missing(s, p) ==
  /\ Ent(s, p).present /\ Ent(s, p).kind = "dir" /\ ~Ent(s, p).adm
  /\ ~Ent(s, p).deleted /\ ~Ent(s, p).absent

----------------------------------------------------------------------------
\* Batons

Top(s) == s.dirs[Len(s.dirs)]

\* make_dir_baton: the new baton goes on top of the stack of open
\* directories; name is "" for the root.
make_dir_baton(s, name, added) ==
  LET root == s.dirs = <<>>
      pb == Top(s)
      path == IF root THEN <<>> ELSE svn_dirent_join(pb.path, name)
      sw == s.eb.switch_url
      entry_url == get_entry_url(s, path, "dir")
      new_URL ==
        IF sw # NoURL
        THEN IF root
             THEN IF s.eb.target = "" THEN sw ELSE svn_dirent_dirname(sw)
             ELSE IF s.eb.target # "" /\ Len(s.dirs) = 1 THEN sw
                  ELSE Append(pb.new_URL, name)
        ELSE IF entry_url = NoURL /\ ~root THEN Append(pb.new_URL, name)
             ELSE entry_url
      bdi == [parent |-> IF root THEN <<>> ELSE <<pb.path>>,
              ref_count |-> 1, skipped |-> FALSE]
      d == [path |-> path, new_URL |-> new_URL, added |-> added,
            existed |-> FALSE, add_existed |-> FALSE, log_number |-> 0,
            log_accum |-> <<>>, old_revision |-> SVN_INVALID_REVNUM,
            ambient_depth |-> "unknown", was_incomplete |-> FALSE,
            propchanges |-> <<>>]
  IN  [s EXCEPT
         !.dirs = Append(@, d),
         !.bump = [q \in DOMAIN @ \cup {path} |->
                     IF q = path THEN bdi
                     ELSE IF ~root /\ q = pb.path
                       THEN [@[q] EXCEPT !.ref_count = @ + 1]
                     ELSE @[q]]]

----------------------------------------------------------------------------
\* Local modifications and tree conflicts

\* svn_wc__text_modified_internal_p: the working file differs from its base.
text_modified(s, p) ==
  p \in Paths /\ s.disk[p].kind = "file" /\ s.disk[p].text \in {"local", "merged", "markers"}

entry_has_local_mods(s, p, kind) == kind = "file" /\ text_modified(s, p)

\* What svn_wc_walk_entries3 visits from path: the entries that are not
\* hidden, of path and below.
WalkedEntries(s, path) ==
  {q \in Paths : IsPrefix(path, q) /\ s.entries[q].present
                 /\ ~entry_is_hidden(s.entries[q])}

modcheck_found_entry(s, q) ==
  \/ s.entries[q].schedule # "normal"
  \/ entry_has_local_mods(s, q, s.entries[q].kind)

\* tree_has_local_mods: <<modified, all_edits_are_deletes>>.
tree_has_local_mods(s, path) ==
  LET mods == {q \in WalkedEntries(s, path) : modcheck_found_entry(s, q)}
  IN  <<mods # {}, \A q \in mods : s.entries[q].schedule = "delete">>

\* check_tree_conflict without the crawl of a directory for local
\* modifications: a directory counts as modified by its own schedule only.
check_tree_conflict_shallow(s, full_path, entry, action) ==
  LET is_subtree_of_locally_deleted == in_deleted_tree(s, full_path, FALSE)
      local == entry.schedule \in {"delete", "replace"}
      local_reason == IF entry.schedule = "delete" THEN "deleted" ELSE "replaced"
      modified ==
        \/ entry.schedule # "normal"
        \/ entry_has_local_mods(s, full_path, entry.kind)
  IN  CASE action = "edit" ->
             IF local /\ ~is_subtree_of_locally_deleted
             THEN local_reason ELSE "none"
        [] action = "add" ->
             IF entry.present /\ ~entry.file_external_path
             THEN "added" ELSE "none"
        [] OTHER ->
             IF local
             THEN IF ~is_subtree_of_locally_deleted THEN local_reason ELSE "none"
             ELSE IF modified THEN "edited" ELSE "none"

\* check_tree_conflict: the reason of the conflict the incoming action
\* raises on full_path, "none" when it raises none.
check_tree_conflict(s, full_path, entry, action) ==
  LET is_subtree_of_locally_deleted == in_deleted_tree(s, full_path, FALSE)
      local == entry.schedule \in {"delete", "replace"}
      local_reason == IF entry.schedule = "delete" THEN "deleted" ELSE "replaced"
      tree == IF entry.adm THEN tree_has_local_mods(s, full_path)
              ELSE <<FALSE, FALSE>>
      modified ==
        IF entry.kind = "file"
        THEN entry.schedule # "normal"
             \/ entry_has_local_mods(s, full_path, entry.kind)
        ELSE entry.kind = "dir" /\ tree[1]
      all_mods_are_deletes == entry.kind = "dir" /\ tree[2]
  IN  CASE action = "edit" ->
             IF local /\ ~is_subtree_of_locally_deleted
             THEN local_reason ELSE "none"
        [] action = "add" ->
             IF entry.present /\ ~entry.file_external_path
             THEN "added" ELSE "none"
        [] OTHER ->
             IF local
             THEN IF ~is_subtree_of_locally_deleted THEN local_reason ELSE "none"
             ELSE IF modified
                  THEN IF all_mods_are_deletes THEN "deleted" ELSE "edited"
                  ELSE "none"

\* svn_wc__loggy_add_tree_conflict
loggy_add_tree_conflict(path, reason, action) ==
  [op |-> "add_tree_conflict", path |-> path, reason |-> reason,
   action |-> action]

\* svn_wc__loggy_entry_modify and svn_wc__loggy_delete_entry
loggy_entry_modify(path, upd) ==
  [op |-> "modify_entry", path |-> path, upd |-> upd]
loggy_delete_entry(path) == [op |-> "delete_entry", path |-> path]

\* already_in_a_tree_conflict: the path, if versioned, or a directory above
\* it and below the working copy root, is a recorded tree conflict victim.
already_in_a_tree_conflict(s, path) ==
  LET above == SelfAndAncestors(svn_dirent_dirname(path)) \ {<<>>}
      checked == IF Ent(s, path).present THEN above \cup {path} ELSE above
  IN  \E q \in checked \cap Paths : s.conflicts.tree[q] # "none"

\* check_path_under_root: the name of the error, "none" when the joined
\* path stays under base_path.
check_path_under_root(base_path, add_path) ==
  IF svn_dirent_is_under_root(base_path, add_path) THEN "none"
  ELSE "obstructed_update"

----------------------------------------------------------------------------
\* Deletion

\* A re-add that records no copyfrom.
schedule_without_copyfrom(s, entry, path, their_url, modify_copyfrom) ==
  [s EXCEPT !.entries =
     svn_wc__entry_modify(@, path, [url |-> their_url, schedule |-> "add"])]

schedule_existing_item_for_re_add(s, entry, path, their_url, modify_copyfrom) ==
  LET upd0 == [url |-> their_url, schedule |-> "add"]
      upd == IF modify_copyfrom
             THEN [url |-> their_url, schedule |-> "add",
                   copyfrom_url |-> entry.url, copyfrom_rev |-> entry.revision,
                   copied |-> TRUE]
             ELSE upd0
      s1 == [s EXCEPT !.entries = svn_wc__entry_modify(@, path, upd)]
      below == WalkedEntries(s1, path) \ {path}
  IN  IF entry.kind = "dir" /\ ~entry.adm THEN fail(s, "not_locked")
      ELSE IF entry.kind = "dir"
      THEN [s1 EXCEPT !.entries =
              [q \in Paths |->
                 IF q \in below /\ @[q].schedule = "normal"
                 THEN [@[q] EXCEPT !.copied = TRUE] ELSE @[q]]]
      ELSE s1

\* svn_wc_remove_from_revision_control on a directory, destroying the
\* working files that carry no local modifications.
svn_wc_remove_from_revision_control(s, path) == log_do_delete_entry(s, path)

\* do_entry_deletion: the resulting state and the value left in *log_number.
do_entry_deletion(s, parent_path, path, their_url, log_number) ==
  LET entry == Ent(s, path)
      is_target == s.eb.target # "" /\ path = <<s.eb.target>>
      ret(st, n) == [st |-> st, log_number |-> n]
      stub == IF is_target
              THEN <<loggy_entry_modify(path,
                        [revision |-> s.eb.target_revision,
                         kind |-> entry.kind, deleted |-> TRUE])>>
              ELSE <<>>
      \* the log is written: the working copy is pruned and the log run
      logged(s_del1, reason) ==
        LET s_del2 == IF s.eb.switch_url # NoURL /\ entry.kind = "dir"
                      THEN svn_wc_remove_from_revision_control(s_del1, path)
                      ELSE s_del1
            told(s_del3) ==
              IF reason = "none" /\ ~in_deleted_tree(s, path, TRUE)
              THEN notify(s_del3, "update_delete", path) ELSE s_del3
        IN  IF s.eb.switch_url # NoURL /\ entry.kind = "dir" /\ ~entry.adm
              THEN ret(fail(s_del1, "not_locked"), log_number)
            ELSE ret(told(svn_wc__run_log(s_del2, parent_path)), 0)
      \* the tree conflict check has run
      checked(reason) ==
        LET tc_item == IF reason = "none" THEN <<>>
                       ELSE <<loggy_add_tree_conflict(path, reason, "delete")>>
            s_tc == IF reason = "none" THEN s
                    ELSE notify(remember_skipped_tree(
                                  raised_tree_conflict(s, path), path),
                                "tree_conflict", path)
            log_item == tc_item \o <<loggy_delete_entry(path)>> \o stub
            s_del0 == IF is_target
                      THEN [s_tc EXCEPT !.eb.target_deleted = TRUE]
                      ELSE s_tc
        IN  IF reason \in {"edited", "replaced"}
              \* the tree conflict alone is logged and the log run
              THEN ret(schedule_existing_item_for_re_add(
                         svn_wc__run_log(
                           svn_wc__write_log(s_tc, parent_path, log_number,
                                             tc_item),
                           parent_path),
                         entry, path, their_url, reason = "edited"), 0)
            ELSE logged(svn_wc__write_log(s_del0, parent_path, log_number,
                                          log_item), reason)
  IN  IF ~Ent(s, parent_path).adm THEN ret(fail(s, "not_locked"), log_number)
      ELSE IF ~entry.present
        THEN ret(fail(s, "unversioned_resource"), log_number)
      ELSE IF entry.depth = "exclude"
        THEN ret([s EXCEPT !.entries = svn_wc__entry_remove(@, path),
                           !.eb.target_deleted = @ \/ is_target], log_number)
      ELSE IF in_skipped_tree(s, path) /\ ~in_deleted_tree(s, path, TRUE)
        THEN ret(s, log_number)
      ELSE IF already_in_a_tree_conflict(s, path)
        THEN ret(notify(remember_skipped_tree(s, path), "skip", path),
                 log_number)
      ELSE checked(check_tree_conflict(s, path, entry, "delete"))

\* delete_entry in the directory on top of the stack.
delete_entry(s, name) ==
  LET i == Len(s.dirs)
      pb == s.dirs[i]
      path == svn_dirent_join(pb.path, name)
      their_url == Append(pb.new_URL, name)
      e == check_path_under_root(pb.path, name)
      deleted(r) == [r.st EXCEPT !.dirs[i].log_number = r.log_number]
  IN  IF e # "none" THEN fail(s, e)
      ELSE deleted(do_entry_deletion(s, pb.path, path, their_url,
                                     pb.log_number))

----------------------------------------------------------------------------
\* Completion

\* The order of svn_depth_t.
DepthRank(d) ==
  CASE d = "unknown" -> 0 - 2
    [] d = "exclude" -> 0 - 1
    [] d = "empty" -> 0
    [] d = "files" -> 1
    [] d = "immediates" -> 2
    [] OTHER -> 3

svn_wc__set_depth(s, path, depth) ==
  [s EXCEPT !.entries[path].depth = depth]

\* A loop of complete_directory that does not look at the absent flag.
complete_child_keeps_absent(s, c) ==
  LET e == s.entries[c]
  IN  IF ~e.present THEN "keep"
      ELSE IF e.deleted
        THEN IF e.schedule # "add" THEN "remove" ELSE "undelete"
      ELSE IF e.kind = "dir"
        THEN IF e.depth = "exclude"
             THEN IF s.eb.depth_is_sticky
                     /\ DepthRank(s.eb.requested_depth) >= DepthRank("immediates")
                  THEN "include" ELSE "keep"
             ELSE IF svn_wc__adm_missing(s, c) /\ ~e.absent /\ e.schedule # "add"
                  THEN "remove_missing" ELSE "keep"
      ELSE "keep"

\* The loop of complete_directory over the entries of the directory: what
\* becomes of the entry of child c.
complete_child(s, c) ==
  LET e == s.entries[c]
  IN  IF ~e.present THEN "keep"
      ELSE IF e.deleted
        THEN IF e.schedule # "add" THEN "remove" ELSE "undelete"
      ELSE IF e.absent /\ e.revision # s.eb.target_revision THEN "remove"
      ELSE IF e.kind = "dir"
        THEN IF e.depth = "exclude"
             THEN IF s.eb.depth_is_sticky
                     /\ DepthRank(s.eb.requested_depth) >= DepthRank("immediates")
                  THEN "include" ELSE "keep"
             ELSE IF svn_wc__adm_missing(s, c) /\ ~e.absent /\ e.schedule # "add"
                  THEN "remove_missing" ELSE "keep"
      ELSE "keep"

RECURSIVE notify_all(_, _, _)
notify_all(s, action, paths) ==
  IF paths = {} THEN s
  ELSE LET q == CHOOSE x \in paths : TRUE
       IN  notify_all(notify(s, action, q), action, paths \ {q})

\* History: complete_directory was called for path; unexecuted tells whether
\* the directory then had commands in the log buffer of its baton or log
\* files that were not run.
Completed(t, s, path) ==
  [t EXCEPT !.hist.completed =
     Append(@, [path |-> path,
                unexecuted |->
                  \/ \E i \in 1..Len(s.dirs) :
                        s.dirs[i].path = path /\ s.dirs[i].log_accum # <<>>
                  \/ \E j \in 1..Len(s.closed_dirs) :
                        /\ s.closed_dirs[j].path = path
                        /\ s.closed_dirs[j].log_accum # <<>>
                  \/ (path \in DirPaths /\ s.logfiles[path] # <<>>)])]

\* A complete_directory that gives the target the requested depth whether or
\* not it is deeper than the depth the target has.
complete_directory_any_depth(s, path, is_root_dir) ==
  LET tp == <<s.eb.target>>
      target_entry == svn_wc__get_entry(s, tp, TRUE, "dir")
      entry == s.entries[path]
      sticky == s.eb.depth_is_sticky
                /\ (s.eb.requested_depth = "infinity"
                    \/ path = TargetPath(s.eb.target))
      s1 == [s EXCEPT !.entries[path].incomplete = FALSE]
      s2 == IF sticky THEN svn_wc__set_depth(s1, path, s.eb.requested_depth)
            ELSE s1
      fate == [c \in Children(path) |-> complete_child(s, c)]
      gone == {q \in Paths : \E c \in Children(path) :
                 IsPrefix(c, q) /\ fate[c] \in {"remove", "remove_missing"}}
      s3 == [s2 EXCEPT !.entries =
               [q \in Paths |->
                  IF q \in gone THEN NoEntry
                  ELSE IF q \in Children(path) /\ fate[q] = "undelete"
                    THEN [@[q] EXCEPT !.deleted = FALSE]
                  ELSE IF q \in Children(path) /\ fate[q] = "include"
                    THEN [@[q] EXCEPT !.depth = "infinity"]
                  ELSE @[q]]]
      done ==
        IF in_skipped_tree(s, path) /\ ~in_deleted_tree(s, path, TRUE) THEN s
        ELSE IF is_root_dir /\ s.eb.target # ""
          THEN IF target_entry.present /\ target_entry.depth = "exclude"
               THEN IF ~target_entry.adm
                    THEN do_entry_deletion(s, <<>>, tp, NoURL, 0).st
                    ELSE svn_wc__set_depth(s, tp, "infinity")
               ELSE s
        ELSE IF ~entry.adm THEN fail(s, "not_locked")
        ELSE notify_all(s3, "update_delete",
                        {c \in Children(path) : fate[c] = "remove_missing"})
  IN  Completed(done, s, path)

complete_directory(s, path, is_root_dir) ==
  LET tp == <<s.eb.target>>
      target_entry == svn_wc__get_entry(s, tp, TRUE, "dir")
      entry == s.entries[path]
      sticky == s.eb.depth_is_sticky
                /\ (s.eb.requested_depth = "infinity"
                    \/ (path = TargetPath(s.eb.target)
                        /\ DepthRank(s.eb.requested_depth) > DepthRank(entry.depth)))
      s1 == [s EXCEPT !.entries[path].incomplete = FALSE]
      s2 == IF sticky THEN svn_wc__set_depth(s1, path, s.eb.requested_depth)
            ELSE s1
      fate == [c \in Children(path) |-> complete_child(s, c)]
      gone == {q \in Paths : \E c \in Children(path) :
                 IsPrefix(c, q) /\ fate[c] \in {"remove", "remove_missing"}}
      s3 == [s2 EXCEPT !.entries =
               [q \in Paths |->
                  IF q \in gone THEN NoEntry
                  ELSE IF q \in Children(path) /\ fate[q] = "undelete"
                    THEN [@[q] EXCEPT !.deleted = FALSE]
                  ELSE IF q \in Children(path) /\ fate[q] = "include"
                    THEN [@[q] EXCEPT !.depth = "infinity"]
                  ELSE @[q]]]
      done ==
        IF in_skipped_tree(s, path) /\ ~in_deleted_tree(s, path, TRUE) THEN s
        ELSE IF is_root_dir /\ s.eb.target # ""
          THEN IF target_entry.present /\ target_entry.depth = "exclude"
               THEN IF ~target_entry.adm
                    THEN do_entry_deletion(s, <<>>, tp, NoURL, 0).st
                    ELSE svn_wc__set_depth(s, tp, "infinity")
               ELSE s
        ELSE IF ~entry.adm THEN fail(s, "not_locked")
        ELSE notify_all(s3, "update_delete",
                        {c \in Children(path) : fate[c] = "remove_missing"})
  IN  Completed(done, s, path)

\* maybe_bump_dir_info without the walk up to the parent.
maybe_bump_dir_info_no_cascade(s, path) ==
  LET bdi == s.bump[path]
      s1 == [s EXCEPT !.bump[path].ref_count = @ - 1]
  IN  IF bdi.ref_count - 1 > 0 \/ bdi.skipped THEN s1
      ELSE complete_directory(s1, path, bdi.parent = <<>>)

\* maybe_bump_dir_info that completes the directory at every decrement.
maybe_bump_dir_info_eager(s, path) ==
  LET bdi == s.bump[path]
      s1 == [s EXCEPT !.bump[path].ref_count = @ - 1]
  IN  IF bdi.skipped THEN s1
      ELSE complete_directory(s1, path, bdi.parent = <<>>)

\* maybe_bump_dir_info, starting at the bump_dir_info of path.
RECURSIVE maybe_bump_dir_info(_, _)
maybe_bump_dir_info(s, path) ==
  LET bdi == s.bump[path]
      s1 == [s EXCEPT !.bump[path].ref_count = @ - 1]
      \* the directory is done: on to its parent
      up(s2) ==
        IF s2.pc = "failed" \/ bdi.parent = <<>> THEN s2
        ELSE maybe_bump_dir_info(s2, bdi.parent[1])
  IN  IF bdi.ref_count - 1 > 0 THEN s1
      ELSE up(IF ~bdi.skipped
              THEN complete_directory(s1, path, bdi.parent = <<>>)
              ELSE s1)

----------------------------------------------------------------------------
\* set_target_revision and open_root

set_target_revision(s, target_revision) ==
  [s EXCEPT !.eb.target_revision = target_revision]

\* An open_root that leaves the entry of the root as it is.
open_root_unmarked(s) ==
  make_dir_baton([s EXCEPT !.eb.root_opened = TRUE], "", FALSE)

\* An open_root that marks the root incomplete and leaves its revision.
open_root_old_revision(s) ==
  LET s1 == make_dir_baton([s EXCEPT !.eb.root_opened = TRUE], "", FALSE)
      d == Top(s1)
      entry == svn_wc__get_entry(s1, d.path, FALSE, "unknown")
      s2 == IF entry.present
            THEN [s1 EXCEPT !.dirs[1].ambient_depth = entry.depth,
                            !.dirs[1].was_incomplete = entry.incomplete]
            ELSE s1
  IN  IF s.eb.target = ""
      THEN [s2 EXCEPT !.entries = svn_wc__entry_modify(@, d.path,
              [url |-> d.new_URL, incomplete |-> TRUE])]
      ELSE s1

\* open_root: the root baton; with an empty target the root is handled as
\* open_directory handles a directory: the depth and the incomplete flag of
\* its entry are read into the baton and the entry is marked incomplete at
\* the target revision.  With a target the baton keeps what make_dir_baton
\* gave it and the entry is left alone.
open_root(s) ==
  LET s1 == make_dir_baton([s EXCEPT !.eb.root_opened = TRUE], "", FALSE)
      d == Top(s1)
      entry == svn_wc__get_entry(s1, d.path, FALSE, "unknown")
      s2 == IF entry.present
            THEN [s1 EXCEPT !.dirs[1].ambient_depth = entry.depth,
                            !.dirs[1].was_incomplete = entry.incomplete]
            ELSE s1
  IN  IF s.eb.target = ""
      THEN [s2 EXCEPT !.entries = svn_wc__entry_modify(@, d.path,
              [revision |-> s.eb.target_revision, url |-> d.new_URL,
               incomplete |-> TRUE])]
      ELSE s1

----------------------------------------------------------------------------
\* Directories

\* svn_wc__internal_ensure_adm: create the administrative area of the
\* directory, or check that the existing one is at this URL and revision.
svn_wc__internal_ensure_adm(s, path, url, revision, depth) ==
  LET e == s.entries[path]
  IN  IF e.adm
      THEN IF e.schedule # "delete" /\ (e.revision # revision \/ e.url # url)
           THEN fail(s, "obstructed_update") ELSE s
      ELSE [s EXCEPT !.entries = svn_wc__entry_modify(@, path,
              [kind |-> "dir", url |-> url, revision |-> revision,
               depth |-> depth, incomplete |-> TRUE, adm |-> TRUE])]

\* prep_directory for the dir baton at position i.
prep_directory(s, i, ancestor_url, ancestor_revision) ==
  LET db == s.dirs[i]
      s1 == [s EXCEPT !.disk[db.path] = [kind |-> "dir", text |-> "none"]]
  IN  svn_wc__internal_ensure_adm(s1, db.path, ancestor_url,
                                  ancestor_revision, db.ambient_depth)

\* add_directory in the directory on top of the stack; copyfrom tells
\* whether the call has copyfrom arguments (a path and a valid revision).
add_directory(s, name, copyfrom) ==
  LET pbi == Len(s.dirs)
      dbi == pbi + 1
      pb == s.dirs[pbi]
      path == svn_dirent_join(pb.path, name)
      locally_deleted == in_deleted_tree(s, path, TRUE)
      ambient ==
        IF s.eb.target # "" /\ path = <<s.eb.target>>
        THEN IF s.eb.requested_depth = "unknown" THEN "infinity"
             ELSE s.eb.requested_depth
        ELSE IF s.eb.requested_depth = "immediates"
                \/ (s.eb.requested_depth = "unknown"
                    /\ pb.ambient_depth = "immediates")
        THEN "empty" ELSE "infinity"
      kind == s.disk[path].kind
      entry == Ent(s, path)
      versioned == kind = "dir" /\ entry.adm
      add_existed == versioned /\ entry.schedule \in {"add", "replace"}
                     /\ ~entry.copied
      existed == kind = "dir" /\ ~versioned
      stub == IF add_existed
              THEN [kind |-> "dir", deleted |-> FALSE, absent |-> FALSE,
                    schedule |-> "normal"]
              ELSE [kind |-> "dir", deleted |-> FALSE, absent |-> FALSE]
      this_dir == IF s.eb.switch_url # NoURL
                  THEN [schedule |-> "normal",
                        revision |-> s.eb.target_revision,
                        url |-> Append(s.eb.switch_url, name)]
                  ELSE [schedule |-> "normal",
                        revision |-> s.eb.target_revision]
      \* after prep_directory
      prepared(s5) ==
        LET s6 == IF locally_deleted
                  THEN [s5 EXCEPT !.entries[path].schedule = "delete"] ELSE s5
        IN  IF s5.pc = "failed" THEN s5
            ELSE IF ~add_existed /\ ~locally_deleted
              THEN notify(s6, IF existed THEN "exists" ELSE "update_add", path)
            ELSE s6
      \* the tree conflict check has run
      checked(s1, reason) ==
        LET db == s1.dirs[dbi]
            s2 == [s1 EXCEPT !.dirs[dbi].existed = existed,
                             !.dirs[dbi].add_existed = add_existed]
            s3 == [s2 EXCEPT !.entries = svn_wc__entry_modify(@, path, stub)]
            s4 == IF add_existed
                  THEN [s3 EXCEPT !.entries =
                          svn_wc__entry_modify(@, path, this_dir)]
                  ELSE s3
        IN  IF versioned /\ ~add_existed /\ reason # "none"
              THEN notify(remember_skipped_tree(raised_tree_conflict(
                     [s1 EXCEPT !.dirs[pbi].log_accum =
                        Append(@, loggy_add_tree_conflict(path, reason, "add"))],
                     path), path), "tree_conflict", path)
            ELSE IF copyfrom THEN fail(s2, "unsupported_feature")
            ELSE IF ~Ent(s, pb.path).adm THEN fail(s2, "not_locked")
            ELSE prepared(prep_directory(s4, dbi, db.new_URL,
                                         s.eb.target_revision))
      \* the baton is made and the parent's log flushed
      made(s1) ==
        LET db == s1.dirs[dbi]
        IN  IF check_path_under_root(pb.path, name) # "none"
              THEN fail(s1, check_path_under_root(pb.path, name))
            ELSE IF in_skipped_tree(s, path) /\ ~locally_deleted THEN s1
            ELSE IF already_in_a_tree_conflict(s, path)
              THEN notify(remember_skipped_tree(s1, path), "skip", path)
            ELSE IF kind = "file" THEN fail(s1, "obstructed_update")
            ELSE IF existed /\ ~s.eb.allow_unver_obstructions
              THEN fail(notify(s1, "update_obstruction", path),
                        "obstructed_update")
            ELSE IF versioned
                    /\ (s.eb.switch_url = NoURL /\ db.new_URL # entry.url)
              THEN fail(s1, "obstructed_update")
            ELSE IF versioned /\ entry_is_hidden(entry)
              THEN fail(s1, "obstructed_update")
            ELSE checked(s1, check_tree_conflict(s1, path, entry, "add"))
  IN  made(flush_log([make_dir_baton(s, name, TRUE)
                        EXCEPT !.dirs[dbi].ambient_depth = ambient], pbi))

\* svn_wc__internal_conflicted_p, the property conflict of a path.
prop_conflicted_p(s, path) == path \in s.conflicts.prop

\* open_directory in the directory on top of the stack.
open_directory(s, name) ==
  LET pbi == Len(s.dirs)
      dbi == pbi + 1
      pb == s.dirs[pbi]
      path == svn_dirent_join(pb.path, name)
      entry == Ent(s, path)
      prop_conflicted == prop_conflicted_p(s, path)
      \* the directory is skipped: bump info, set and notification
      skip(s4) ==
        LET s5 == IF ~in_deleted_tree(s4, path, TRUE)
                  THEN [s4 EXCEPT !.bump[path].skipped = TRUE] ELSE s4
            s6 == remember_skipped_tree(s5, path)
        IN  IF ~in_deleted_tree(s6, path, FALSE)
            THEN notify(s6, IF prop_conflicted THEN "skip"
                            ELSE "tree_conflict", path)
            ELSE s6
      \* the conflicts are known
      checked(s2, already_conflicted, reason) ==
        LET db == s2.dirs[dbi]
            s3 == IF reason # "none"
                  THEN raised_tree_conflict(
                         [s2 EXCEPT !.dirs[pbi].log_accum =
                            Append(@, loggy_add_tree_conflict(path, reason,
                                                              "edit"))],
                         path)
                  ELSE s2
            s4 == IF reason \in {"deleted", "replaced"}
                     /\ ~in_deleted_tree(s3, path, TRUE)
                  THEN remember_deleted_tree(s3, path) ELSE s3
            conflicted == already_conflicted \/ reason # "none"
                          \/ prop_conflicted
            tweak(s8) ==
              [s8 EXCEPT !.entries = svn_wc__entry_modify(@, path,
                 [revision |-> s.eb.target_revision, url |-> db.new_URL,
                  incomplete |-> TRUE])]
        IN  IF conflicted
               /\ (prop_conflicted
                   \/ reason \notin {"none", "deleted", "replaced"})
              THEN skip(s4)
            ELSE IF conflicted THEN tweak(skip(s4))
            ELSE tweak(s4)
      \* the baton is made and the parent's log flushed
      made(s1) ==
        LET s2 == [s1 EXCEPT !.dirs[dbi].ambient_depth = entry.depth,
                             !.dirs[dbi].was_incomplete = entry.incomplete,
                             !.dirs[dbi].old_revision = entry.revision]
        IN  IF check_path_under_root(pb.path, name) # "none"
              THEN fail(s1, check_path_under_root(pb.path, name))
            ELSE IF ~entry.adm \/ ~Ent(s, pb.path).adm
              THEN fail(s1, "not_locked")
            ELSE IF in_skipped_tree(s, path) /\ ~in_deleted_tree(s, path, TRUE)
              THEN [s2 EXCEPT !.bump[path].skipped = TRUE]
            ELSE IF already_in_a_tree_conflict(s, path)
              THEN checked(s2, TRUE, "none")
            ELSE checked(s2, FALSE,
                         check_tree_conflict(s, path, entry, "edit"))
  IN  made(flush_log(make_dir_baton(s, name, FALSE), pbi))

\* svn_wc__merge_props: the log commands that install the properties of
\* path after the changes.
loggy_props(path, propchanges) ==
  IF propchanges = <<>> THEN <<>>
  ELSE <<[op |-> "install_props", path |-> path,
          value |-> propchanges[Len(propchanges)].value]>>

\* change_dir_prop on the directory on top of the stack.
change_dir_prop(s, name, value) ==
  LET i == Len(s.dirs)
      db == s.dirs[i]
  IN  IF s.bump[db.path].skipped THEN s
      ELSE [s EXCEPT !.dirs[i].propchanges =
              Append(@, [name |-> name, value |-> value])]

\* cleanup_dir_baton, the cleanup handler of the pool of the dir baton at
\* position i of the stack: the log buffer is flushed and, if the directory
\* has log files and its administrative area can be retrieved, they are run.
cleanup_dir_baton(s, i) ==
  LET flushed(s1) ==
        IF s1.dirs[i].log_number > 0 /\ Ent(s1, s1.dirs[i].path).adm
        THEN svn_wc__run_log(s1, s1.dirs[i].path)
        ELSE s1
  IN  flushed(flush_log(s, i))

\* cleanup_dir_baton of the oldest baton that was closed while a file pointed
\* to it, when its pool is destroyed.
cleanup_closed_dir_baton(s) ==
  LET n == Len(s.dirs) + 1
      cleaned(t) == [t EXCEPT !.dirs = s.dirs,
                              !.closed_dirs = Tail(s.closed_dirs)]
  IN  IF s.closed_dirs = <<>> THEN s
      ELSE cleaned(cleanup_dir_baton(
                     [s EXCEPT !.dirs = Append(@, s.closed_dirs[1])], n))

\* The pools of the open dir batons are destroyed, the pool of a child
\* before that of its parent.
RECURSIVE cleanup_dir_batons(_, _)
cleanup_dir_batons(s, i) ==
  IF i = 0 THEN s ELSE cleanup_dir_batons(cleanup_dir_baton(s, i), i - 1)

\* close_directory of the directory on top of the stack (which received no
\* property changes).
close_directory(s) ==
  LET i == Len(s.dirs)
      db == s.dirs[i]
      \* the baton outlives the call while a file baton points to it
      pop(x) ==
        [x EXCEPT !.dirs = SubSeq(@, 1, i - 1),
                  !.closed_dirs =
                    IF \E fb \in x.files : svn_dirent_dirname(fb.path) = db.path
                    THEN Append(@, x.dirs[i]) ELSE @]
      \* an incomplete directory loses the base property the server did not
      \* send again
      regular_props ==
        IF db.was_incomplete /\ db.propchanges = <<>>
           /\ db.path \in Paths /\ s.pristine.props[db.path] # NoValue
        THEN <<[name |-> PropName, value |-> NoValue]>>
        ELSE db.propchanges
      s1 == flush_log([s EXCEPT !.dirs[i].log_accum =
                         @ \o loggy_props(db.path, regular_props)], i)
      s2 == [svn_wc__run_log(s1, db.path) EXCEPT !.dirs[i].log_number = 0]
      \* after the bump the baton is done with, its reference to the
      \* directory given back, also when the bump or the notification fails
      bumped(s3) ==
        IF s3.pc = "failed" THEN s3
        ELSE IF ~s3.bump[db.path].skipped /\ (db.add_existed \/ ~db.added)
                /\ ~in_deleted_tree(s3, db.path, TRUE)
          THEN pop(notify(s3, IF db.existed \/ db.add_existed THEN "exists"
                              ELSE "update_update", db.path))
        ELSE pop(s3)
  IN  IF in_skipped_tree(s, db.path) /\ ~in_deleted_tree(s, db.path, TRUE)
        THEN pop(maybe_bump_dir_info(s, db.path))
      ELSE IF ~Ent(s, db.path).adm THEN fail(s, "not_locked")
      ELSE bumped(maybe_bump_dir_info(s2, db.path))

\* An absent_file_or_dir that does not look for an entry scheduled for
\* addition.
absent_file_or_dir_unchecked(s, name, kind) ==
  LET path == svn_dirent_join(Top(s).path, name)
  IN  IF ~Ent(s, Top(s).path).adm THEN fail(s, "not_locked")
      ELSE [s EXCEPT !.entries = svn_wc__entry_modify(@, path,
              [kind |-> kind, deleted |-> FALSE,
               revision |-> s.eb.target_revision, absent |-> TRUE])]

\* absent_file_or_dir in the directory on top of the stack.
absent_file_or_dir(s, name, kind) ==
  LET pb == Top(s)
      path == svn_dirent_join(pb.path, name)
      ent == svn_wc__get_entry(s, path, FALSE, "unknown")
  IN  IF ~Ent(s, pb.path).adm THEN fail(s, "not_locked")
      ELSE IF ent.present /\ ent.schedule = "add"
        THEN fail(s, "obstructed_update")
      ELSE [s EXCEPT !.entries = svn_wc__entry_modify(@, path,
              [kind |-> kind, deleted |-> FALSE,
               revision |-> s.eb.target_revision, absent |-> TRUE])]

----------------------------------------------------------------------------
\* Files

\* make_file_baton for a file of the directory on top of the stack.
\* text_base_path is "none" until the text base to replace is chosen, the
\* text base ("base") or the revert base ("revert").  copied_text_base and
\* copied_working_text tell whether the baton has these temporary files.
\* struct handler_baton: whether apply_textdelta made one that is still
\* there, the checksum the source is expected to have, and the windows
\* applied so far.  Its work_path is the new text base of the file in the
\* temporary area.
NoHandler == [open |-> FALSE, expected_source_checksum |-> NoChecksum,
              windows |-> 0]

make_file_baton(s, name, adding) ==
  LET pb == Top(s)
      path == svn_dirent_join(pb.path, name)
  IN  [path |-> path,
       new_URL |-> IF s.eb.switch_url # NoURL THEN Append(pb.new_URL, name)
                   ELSE get_entry_url(s, path, "file"),
       old_revision |-> SVN_INVALID_REVNUM, added |-> adding,
       existed |-> FALSE, add_existed |-> FALSE, skipped |-> FALSE,
       deleted |-> FALSE, received_textdelta |-> FALSE,
       new_text_base_path |-> FALSE, actual_checksum |-> NoChecksum,
       handler_baton |-> NoHandler, propchanges |-> <<>>,
       text_base_path |-> "none", added_with_history |-> FALSE,
       copied_text_base |-> FALSE, copied_base_checksum |-> NoChecksum,
       copied_working_text |-> FALSE, copied_base_props |-> NoValue,
       copied_working_props |-> NoValue]

\* A file baton that does not count as a referer of its directory.
with_file_baton_uncounted(s, fb) == [s EXCEPT !.files = @ \cup {fb}]

\* The baton joins the open files; its directory has one more referer.
with_file_baton(s, fb) ==
  [s EXCEPT !.files = @ \cup {fb},
            !.bump[svn_dirent_dirname(fb.path)].ref_count = @ + 1]

\* The file baton fb, changed.
set_file_baton(s, fb, new_fb) == [s EXCEPT !.files = (@ \ {fb}) \cup {new_fb}]

\* The copyfrom arguments of add_file: a path in the repository, below its
\* root, and a revision; no path and no revision when the file has no
\* history.
NoPath == <<>>
NoCopyfrom == [path |-> NoPath, rev |-> SVN_INVALID_REVNUM]

\* svn_path_get_longest_ancestor of two absolute paths of the repository.
svn_path_get_longest_ancestor(a, b) ==
  LET common == {n \in 0..Len(a) : n <= Len(b) /\ SubSeq(a, 1, n) = SubSeq(b, 1, n)}
  IN  SubSeq(a, 1, CHOOSE n \in common : \A m \in common : m <= n)

\* entry->repos: every entry of the working copy is of the same repository.
entry_repos(e) == IF e.present THEN ReposRoot ELSE NoURL

NotLocated == [err |-> "none", found |-> FALSE, path |-> NoPath]

\* What a read through a null pointer does: the behaviour is undefined.  The
\* process is ended by the fault, or the read goes through and yields null.
NullReads == {"crash", "null"}

\* The process ends where it is: no pool is destroyed, no cleanup handler
\* runs.
crash(s) == [s EXCEPT !.pc = "halted", !.err = "crash"]

\* locate_copyfrom: the versioned file of the working copy that is
\* copyfrom_path@copyfrom_rev, searched from dest_dir.  Both paths compared
\* are absolute, so their longest ancestor is never the empty string.  The
\* anchor is not inside another working copy: a search that leaves the
\* anchor finds nothing.  The function reads dest_entry->repos without a
\* test of dest_entry: for a directory without a visible entry that is a
\* read through a null pointer, and null_read tells what it does.
locate_copyfrom(s, copyfrom_path, copyfrom_rev, dest_dir, dest_entry, null_read) ==
  LET repos == entry_repos(dest_entry)
      copyfrom_parent == svn_dirent_dirname(copyfrom_path)
      dest_fs_path == SubSeq(dest_entry.url, Len(repos) + 1, Len(dest_entry.url))
      ancestor_fs_path ==
        svn_path_get_longest_ancestor(dest_fs_path, copyfrom_parent)
      levels_up == Len(dest_fs_path) - Len(ancestor_fs_path)
      cwd == SubSeq(dest_dir, 1, Len(dest_dir) - levels_up)
      ancestor_entry == svn_wc__get_entry(s, cwd, FALSE, "dir")
      ancestor_url == repos \o ancestor_fs_path
      extra_components ==
        SubSeq(copyfrom_path, Len(ancestor_fs_path) + 1, Len(copyfrom_path))
      file_path == cwd \o extra_components
      file_entry == svn_wc__get_entry(s, file_path, TRUE, "file")
      file_url == entry_repos(file_entry) \o copyfrom_path
  IN  IF ~dest_entry.present /\ null_read = "crash"
        THEN [NotLocated EXCEPT !.err = "crash"]
      ELSE IF repos = NoURL \/ dest_entry.url = NoURL
        THEN [NotLocated EXCEPT !.err = "copyfrom_path_not_found"]
      ELSE IF ~svn_uri_is_ancestor(repos, dest_entry.url)
        THEN [NotLocated EXCEPT !.err = "copyfrom_path_not_found"]
      ELSE IF levels_up > Len(dest_dir) THEN NotLocated
      ELSE IF s.disk[cwd].kind # "dir" THEN NotLocated
      ELSE IF ~ancestor_entry.present THEN NotLocated
      ELSE IF ancestor_url # ancestor_entry.url THEN NotLocated
      ELSE IF file_path \notin Paths THEN NotLocated
      ELSE IF s.disk[file_path].kind # "file" THEN NotLocated
      ELSE IF ~file_entry.present THEN NotLocated
      ELSE IF file_url # file_entry.url THEN NotLocated
      ELSE IF file_entry.cmt_rev = SVN_INVALID_REVNUM
              \/ file_entry.revision = SVN_INVALID_REVNUM
        THEN NotLocated
      ELSE IF ~(file_entry.cmt_rev <= copyfrom_rev
                /\ copyfrom_rev <= file_entry.revision)
        THEN NotLocated
      ELSE [err |-> "none", found |-> TRUE, path |-> file_path]

\* The text a stream reads from a text base: the empty text when there is
\* none.
TextOfBase(checksum) == IF checksum = NoChecksum THEN "empty" ELSE checksum

\* add_file_with_history, on the file baton tfb that add_file made: the text
\* base and the properties of the file come from the copy source in the
\* working copy or, when there is none, from the repository through the
\* fetch callback.  The model has no local property modifications: the
\* working properties of a file are its base properties.
add_file_with_history(s, pb, copyfrom_path, copyfrom_rev, tfb, null_read) ==
  LET fb1 == [tfb EXCEPT !.added_with_history = TRUE]
      s1 == set_file_baton(s, tfb, fb1)
      path_entry == svn_wc__get_entry(s, pb.path, FALSE, "unknown")
      located == locate_copyfrom(s, copyfrom_path, copyfrom_rev, pb.path,
                                 path_entry, null_read)
      src_path == located.path
      src_entry == svn_wc__get_entry(s, src_path, TRUE, "file")
      fb2 == [fb1 EXCEPT !.copied_text_base = TRUE]
      s2 == [set_file_baton(s, tfb, fb2)
               EXCEPT !.pristine.copied = @ \cup {tfb.path}]
      reverted == src_entry.schedule = "replace"
                  /\ src_entry.copyfrom_url # NoURL
      base_props == IF reverted THEN s.pristine.revert_props[src_path]
                    ELSE s.pristine.props[src_path]
      text_changed == text_modified(s, src_path)
      fb_copied ==
        [fb2 EXCEPT !.copied_base_checksum =
                      TextOfBase(IF reverted THEN s.pristine.revert[src_path]
                                 ELSE s.pristine.base[src_path]),
                    !.copied_base_props = base_props,
                    !.copied_working_props = base_props,
                    !.copied_working_text = text_changed]
      fb_fetched ==
        [fb2 EXCEPT !.copied_base_checksum = s.eb.fetch_func,
                    !.copied_base_props = "v1",
                    !.copied_working_props = "v1"]
  IN  IF located.err = "crash" THEN crash(s1)
      ELSE IF located.err \notin {"none", "copyfrom_path_not_found"}
        THEN fail(s1, located.err)
      ELSE IF ~Ent(s, pb.path).adm THEN fail(s1, "not_locked")
      ELSE IF located.found
        THEN [set_file_baton(s, tfb, fb_copied)
                EXCEPT !.pristine.copied = @ \cup {tfb.path},
                       !.pristine.copied_working =
                         IF text_changed THEN @ \cup {tfb.path} ELSE @]
      ELSE IF s.eb.fetch_func = "null" THEN fail(s2, "invalid_op_on_cwd")
      ELSE IF s.eb.fetch_func = "fails" THEN fail(s2, "ra_fetch_failed")
      ELSE [set_file_baton(s, tfb, fb_fetched)
              EXCEPT !.pristine.copied = @ \cup {tfb.path}]

\* add_file in the directory on top of the stack; null_read is what the
\* read through a null pointer in locate_copyfrom does.
add_file(s, name, copyfrom, null_read) ==
  LET pbi == Len(s.dirs)
      pb == s.dirs[pbi]
      path == svn_dirent_join(pb.path, name)
      locally_deleted == in_deleted_tree(s, path, TRUE)
      fb0 == make_file_baton(s, name, TRUE)
      fb == [fb0 EXCEPT !.deleted = locally_deleted]
      kind == s.disk[path].kind
      entry == svn_wc__get_entry(s, path, FALSE, "unknown")
      add_existed == entry.present /\ kind = "file"
                     /\ entry.schedule \in {"add", "replace"} /\ ~entry.copied
      existed == ~entry.present /\ kind = "file"
      reason == check_tree_conflict(s, path, entry, "add")
      fb_new == [fb EXCEPT !.existed = existed, !.add_existed = add_existed]
      s_conf == notify(remember_skipped_tree(raised_tree_conflict(
                  [with_file_baton(s, [fb EXCEPT !.skipped = TRUE])
                     EXCEPT !.dirs[pbi].log_accum =
                       Append(@, loggy_add_tree_conflict(path, reason, "add"))],
                  path), path), "tree_conflict", path)
  IN  IF (copyfrom.path # NoPath \/ copyfrom.rev # SVN_INVALID_REVNUM)
         /\ ~(copyfrom.path # NoPath /\ copyfrom.rev # SVN_INVALID_REVNUM)
        THEN fail(s, "invalid_op_on_cwd")
      ELSE IF in_skipped_tree(s, path) /\ ~locally_deleted
        THEN with_file_baton(s, [fb0 EXCEPT !.skipped = TRUE])
      ELSE IF check_path_under_root(pb.path, name) # "none"
        THEN fail(with_file_baton(s, fb), check_path_under_root(pb.path, name))
      ELSE IF ~Ent(s, pb.path).adm
        THEN fail(with_file_baton(s, fb), "not_locked")
      ELSE IF already_in_a_tree_conflict(s, path)
        THEN notify(remember_skipped_tree(
                      with_file_baton(s, [fb EXCEPT !.skipped = TRUE]), path),
                    "skip", path)
      ELSE IF kind = "dir"
        THEN fail(with_file_baton(s, fb), "obstructed_update")
      ELSE IF existed /\ ~s.eb.allow_unver_obstructions
        THEN fail(notify(with_file_baton(s, fb), "update_obstruction", path),
                  "obstructed_update")
      ELSE IF entry.present /\ s.eb.switch_url = NoURL /\ fb.new_URL # entry.url
        THEN fail(with_file_baton(s, [fb EXCEPT !.existed = existed]),
                  "obstructed_update")
      ELSE IF entry.present /\ kind = "file" /\ ~add_existed /\ reason # "none"
        THEN s_conf
      ELSE IF copyfrom.path # NoPath
        THEN add_file_with_history(with_file_baton(s, fb_new), pb,
                                   copyfrom.path, copyfrom.rev, fb_new,
                                   null_read)
      ELSE with_file_baton(s, fb_new)

\* svn_wc__internal_conflicted_p, the text conflict of a path.
text_conflicted_p(s, path) == path \in s.conflicts.text

\* open_file in the directory on top of the stack.
open_file(s, name) ==
  LET pbi == Len(s.dirs)
      pb == s.dirs[pbi]
      path == svn_dirent_join(pb.path, name)
      fb0 == make_file_baton(s, name, FALSE)
      entry == svn_wc__get_entry(s, path, FALSE, "unknown")
      in_deleted == in_deleted_tree(s, path, TRUE)
      \* the file is skipped: set and notification
      skip(s3, reason) ==
        IF ~in_deleted_tree(s3, path, FALSE)
        THEN notify(s3, IF reason # "none" THEN "tree_conflict" ELSE "skip",
                    path)
        ELSE s3
      \* the conflicts are known
      checked(already_conflicted, reason) ==
        LET s1 == IF reason # "none"
                  THEN raised_tree_conflict(
                         [s EXCEPT !.dirs[pbi].log_accum =
                            Append(@, loggy_add_tree_conflict(path, reason,
                                                              "edit"))],
                         path)
                  ELSE s
            newly_deleted == reason \in {"deleted", "replaced"} /\ ~in_deleted
            s2 == IF newly_deleted THEN remember_deleted_tree(s1, path)
                  ELSE s1
            locally_deleted == in_deleted \/ newly_deleted
            fb == [fb0 EXCEPT !.deleted = locally_deleted,
                              !.old_revision = entry.revision]
            conflicted == already_conflicted \/ reason # "none"
                          \/ text_conflicted_p(s, path)
                          \/ prop_conflicted_p(s, path)
        IN  IF conflicted
            THEN skip(remember_skipped_tree(
                        with_file_baton(s2, [fb EXCEPT
                                               !.skipped = ~locally_deleted]),
                        path), reason)
            ELSE with_file_baton(s2, fb)
  IN  IF check_path_under_root(pb.path, name) # "none"
        THEN fail(with_file_baton(s, fb0), check_path_under_root(pb.path, name))
      ELSE IF ~Ent(s, pb.path).adm
        THEN fail(with_file_baton(s, fb0), "not_locked")
      ELSE IF ~entry.present
        THEN fail(with_file_baton(s, fb0), "unversioned_resource")
      ELSE IF in_skipped_tree(s, path) /\ ~in_deleted
        THEN with_file_baton(s, [fb0 EXCEPT !.skipped = TRUE])
      ELSE IF already_in_a_tree_conflict(s, path) THEN checked(TRUE, "none")
      ELSE checked(FALSE, check_tree_conflict(s, path, entry, "edit"))

\* choose_base_paths: <<checksum, replaced, old_text_base, error>> of the
\* entry of path; the old text base of a replaced file is its revert base.
\* Without an access baton of the directory the function returns the error
\* before it assigns any of the three.
choose_base_paths(s, path) ==
  LET entry == svn_wc__get_entry(s, path, FALSE, "unknown")
      replaced == entry.present /\ entry.schedule = "replace"
  IN  IF ~Ent(s, svn_dirent_dirname(path)).adm
      THEN <<NoChecksum, FALSE, "none", "not_locked">>
      ELSE <<IF entry.present THEN entry.checksum ELSE NoChecksum,
             replaced,
             IF replaced THEN "revert" ELSE "base",
             "none">>

\* change_file_prop on an open file.
change_file_prop(s, fb, name, value) ==
  IF fb.skipped THEN s
  ELSE set_file_baton(s, fb, [fb EXCEPT !.propchanges =
                                Append(@, [name |-> name, value |-> value])])

\* An apply_textdelta that does not compare the base checksum it is given
\* with the recorded one.
apply_textdelta_unchecked(s, fb, base_checksum) ==
  LET chosen == choose_base_paths(s, fb.path)
      fb0 == [fb EXCEPT !.received_textdelta = TRUE]
      fb1 == [fb0 EXCEPT !.text_base_path = chosen[3]]
      hb == [open |-> TRUE,
             expected_source_checksum |->
               IF chosen[2] \/ chosen[1] = NoChecksum THEN base_checksum
               ELSE chosen[1],
             windows |-> 0]
  IN  IF fb.skipped THEN s
      ELSE IF chosen[4] # "none"
        THEN fail(set_file_baton(s, fb, fb0), chosen[4])
      ELSE [set_file_baton(s, fb, [fb1 EXCEPT !.handler_baton = hb])
              EXCEPT !.pristine.tmp = @ \cup {fb.path}]

\* apply_textdelta on an open file: unless the file is skipped, a new text
\* base is received.
apply_textdelta(s, fb, base_checksum) ==
  LET chosen == choose_base_paths(s, fb.path)
      fb0 == [fb EXCEPT !.received_textdelta = TRUE]
      fb1 == [fb0 EXCEPT !.text_base_path = chosen[3]]
      checksum == chosen[1]
      replaced == chosen[2]
      hb == [open |-> TRUE,
             expected_source_checksum |->
               IF replaced \/ checksum = NoChecksum THEN base_checksum
               ELSE checksum,
             windows |-> 0]
  IN  IF fb.skipped THEN s
      ELSE IF chosen[4] # "none"
        THEN fail(set_file_baton(s, fb, fb0), chosen[4])
      ELSE IF ~replaced /\ checksum # NoChecksum /\ base_checksum # NoChecksum
              /\ base_checksum # checksum
        THEN fail(set_file_baton(s, fb, fb1), "corrupt_text_base")
      ELSE [set_file_baton(s, fb, [fb1 EXCEPT !.handler_baton = hb])
              EXCEPT !.pristine.tmp = @ \cup {fb.path}]

\* The checksum of the text the delta is applied to, the source stream
\* apply_textdelta opened: the text base or, of a replaced file, the revert
\* base; for an added file the copied text base if it has one, and the empty
\* text otherwise.
SourceChecksum(s, fb) ==
  IF fb.added
  THEN IF fb.copied_text_base THEN fb.copied_base_checksum ELSE "empty"
  ELSE TextOfBase(s.pristine[fb.text_base_path][fb.path])

\* A window_handler that does not compare the checksum of the source with
\* the expected one.
window_handler_unverified(s, fb, window, apply_err) ==
  LET closed == [fb EXCEPT !.handler_baton = NoHandler]
  IN  IF window # "null" /\ ~apply_err
      THEN set_file_baton(s, fb,
                          [fb EXCEPT !.handler_baton.windows = @ + 1])
      ELSE IF apply_err
        THEN fail([set_file_baton(s, fb, closed)
                     EXCEPT !.pristine.tmp = @ \ {fb.path}],
                  "svndiff_corrupt_window")
      ELSE set_file_baton(s, fb, [closed EXCEPT !.new_text_base_path = TRUE,
                                                !.actual_checksum = "c2"])

\* window_handler: window is "data" or, for the end of the delta, "null";
\* apply_err tells whether the delta engine failed on it.
window_handler(s, fb, window, apply_err) ==
  LET hb == fb.handler_baton
      mismatch == hb.expected_source_checksum # NoChecksum
                  /\ hb.expected_source_checksum # SourceChecksum(s, fb)
      closed == [fb EXCEPT !.handler_baton = NoHandler]
  IN  IF window # "null" /\ ~apply_err
      THEN set_file_baton(s, fb,
                          [fb EXCEPT !.handler_baton.windows = @ + 1])
      ELSE IF mismatch
        THEN fail([set_file_baton(s, fb, closed)
                     EXCEPT !.pristine.tmp = @ \ {fb.path}],
                  "corrupt_text_base")
      ELSE IF apply_err
        THEN fail([set_file_baton(s, fb, closed)
                     EXCEPT !.pristine.tmp = @ \ {fb.path}],
                  "svndiff_corrupt_window")
      ELSE set_file_baton(s, fb, [closed EXCEPT !.new_text_base_path = TRUE,
                                                !.actual_checksum = "c2"])

\* loggy_tweak_entry
loggy_tweak_entry(path, new_revision, new_URL) ==
  loggy_entry_modify(path,
    IF new_URL # NoURL
    THEN [kind |-> "file", revision |-> new_revision, deleted |-> FALSE,
          absent |-> FALSE, url |-> new_URL]
    ELSE [kind |-> "file", revision |-> new_revision, deleted |-> FALSE,
          absent |-> FALSE])

\* svn_wc__loggy_copy of the new text base to the working file.
loggy_copy(path) == [op |-> "copy", path |-> path, text |-> "new"]
\* What svn_wc__merge_internal answers: the merge went in cleanly, it left a
\* conflict, or the call failed.
MergeOutcomes == {"merged", "conflict", "error"}
\* The log commands svn_wc__merge_internal leaves: the result of the merge
\* goes to the working file; after a conflict the result carries the
\* conflict markers and the entry is marked as text-conflicted.
loggy_merge(path, merge_outcome) ==
  IF merge_outcome = "conflict"
  THEN <<[op |-> "copy", path |-> path, text |-> "markers"],
         [op |-> "text_conflict", path |-> path]>>
  ELSE <<[op |-> "copy", path |-> path, text |-> "merged"]>>
\* svn_wc__loggy_move of the new text base from the temporary area to the
\* text base of the file.
loggy_move(path, checksum, src, dst) ==
  [op |-> "move_text_base", path |-> path, checksum |-> checksum,
   src |-> src, dst |-> dst]
\* svn_wc__loggy_remove of a file of the temporary area.
loggy_remove(path, store) == [op |-> "remove", path |-> path, store |-> store]
\* merge_props, for a file: the log commands that install the properties
\* after the changes, made to base_props when the baton has copied ones.
merge_props(path, propchanges, base_props, working_props) ==
  IF propchanges = <<>> /\ base_props # NoValue
  THEN <<[op |-> "install_props", path |-> path, value |-> base_props]>>
  ELSE loggy_props(path, propchanges)
\* The entry fields upd with the checksum field added.
modify_checksum(upd, checksum) ==
  [k \in DOMAIN upd \cup {"checksum"} |->
     IF k = "checksum" THEN checksum ELSE upd[k]]

\* svn_stringbuf_appendstr(fb->dir_baton->log_accum, log_accum): the baton of
\* the file's directory is the open one or, after a close of the directory
\* that came before the close of the file, the closed one.
append_to_dir_baton(s, dir, cmds) ==
  IF \E i \in 1..Len(s.dirs) : s.dirs[i].path = dir
  THEN [s EXCEPT !.dirs[CHOOSE i \in 1..Len(s.dirs) : s.dirs[i].path = dir]
                   .log_accum = @ \o cmds]
  ELSE [s EXCEPT !.closed_dirs[CHOOSE j \in 1..Len(s.closed_dirs) :
                                 s.closed_dirs[j].path = dir]
                   .log_accum = @ \o cmds]

\* A merge_file that installs the new text base and leaves every working
\* file alone.
merge_file_keeps_working_file(s, fb, new_text_base_path, actual_checksum, merge_outcome) ==
  LET i == Len(s.dirs)
      path == fb.path
      entry == svn_wc__get_entry(s, path, FALSE, "unknown")
      has_text == new_text_base_path # "none"
      upd == IF has_text THEN modify_checksum(<<>>, actual_checksum)
             ELSE <<>>
      install == IF has_text
                 THEN <<loggy_move(path, actual_checksum, new_text_base_path,
                                   fb.text_base_path)>>
                 ELSE <<>>
      log_accum ==
        <<loggy_tweak_entry(path, s.eb.target_revision, fb.new_URL)>>
        \o install \o <<loggy_entry_modify(path, upd)>>
  IN  IF ~Ent(s, svn_dirent_dirname(path)).adm THEN fail(s, "not_locked")
      ELSE IF ~entry.present /\ ~fb.added THEN fail(s, "unversioned_resource")
      ELSE append_to_dir_baton(s, svn_dirent_dirname(path), log_accum)

\* merge_file, is_locally_modified: a saved copy of a locally modified copy
\* source, else the working file against its text base or, for an
\* obstruction, against the new text base.
is_locally_modified(s, fb, new_text_base_path) ==
  IF fb.copied_working_text THEN TRUE
  ELSE IF ~fb.existed THEN text_modified(s, fb.path)
  ELSE new_text_base_path # "none" /\ s.disk[fb.path].text # "new"

\* merge_file, is_replaced: the entry is scheduled for replacement.
is_replaced(s, fb) ==
  LET entry == svn_wc__get_entry(s, fb.path, FALSE, "unknown")
  IN  entry.present /\ entry.schedule = "replace"

\* merge_file lets svn_wc__merge_internal loose: there is a new text base
\* for a working file that exists, has local modifications and is no
\* obstruction, and the entry is not scheduled for replacement.
merges_working_file(s, fb, new_text_base_path) ==
  /\ new_text_base_path # "none"
  /\ ~is_replaced(s, fb)
  /\ is_locally_modified(s, fb, new_text_base_path)
  /\ ~(s.disk[fb.path].kind = "none" /\ ~fb.added_with_history)
  /\ ~fb.existed

\* merge_file, the content state it returns.
content_state(s, fb, new_text_base_path, merge_outcome) ==
  IF merges_working_file(s, fb, new_text_base_path)
     /\ merge_outcome = "conflict"
  THEN "conflicted"
  ELSE IF new_text_base_path # "none"
    THEN IF is_locally_modified(s, fb, new_text_base_path) THEN "merged"
         ELSE "changed"
  ELSE "unchanged"

\* A merge_file that hands every command to the buffer of the directory as
\* soon as it is built.
merge_file_piecemeal(s, fb, new_text_base_path, actual_checksum, merge_outcome) ==
  LET path == fb.path
      dir == svn_dirent_dirname(path)
      entry == svn_wc__get_entry(s, path, FALSE, "unknown")
      has_text == new_text_base_path # "none"
      built_first ==
        <<loggy_tweak_entry(path, s.eb.target_revision, fb.new_URL)>>
        \o merge_props(path, fb.propchanges, fb.copied_base_props,
                       fb.copied_working_props)
      text_cmds ==
        IF ~has_text \/ is_replaced(s, fb) THEN <<>>
        ELSE IF ~is_locally_modified(s, fb, new_text_base_path)
          THEN IF ~fb.deleted THEN <<loggy_copy(path)>> ELSE <<>>
        ELSE IF s.disk[path].kind = "none" /\ ~fb.added_with_history
          THEN <<loggy_copy(path)>>
        ELSE IF ~fb.existed
          THEN loggy_merge(path, merge_outcome)
               \o (IF fb.copied_working_text
                   THEN <<loggy_remove(path, "copied_working")>> ELSE <<>>)
        ELSE <<>>
      sched == IF fb.deleted /\ ~is_replaced(s, fb)
                 THEN [schedule |-> "delete"]
               ELSE IF fb.add_existed THEN [schedule |-> "normal"]
               ELSE <<>>
      upd == IF has_text THEN modify_checksum(sched, actual_checksum)
             ELSE sched
      install == IF has_text
                 THEN <<loggy_move(path, actual_checksum, new_text_base_path,
                                   fb.text_base_path)>>
                 ELSE <<>>
      cleanup == IF fb.copied_text_base THEN <<loggy_remove(path, "copied")>>
                 ELSE <<>>
  IN  IF ~Ent(s, dir).adm THEN fail(s, "not_locked")
      ELSE IF ~entry.present /\ ~fb.added THEN fail(s, "unversioned_resource")
      ELSE IF merges_working_file(s, fb, new_text_base_path)
              /\ merge_outcome = "error"
        THEN fail(append_to_dir_baton(s, dir, built_first), "merge_failed")
      ELSE append_to_dir_baton(s, dir,
             built_first \o text_cmds \o install
             \o <<loggy_entry_modify(path, upd)>> \o cleanup)

\* merge_file: the log commands of the file are built in a buffer of its own
\* and go to the log buffer of its directory in one append, the last thing
\* merge_file does.  new_text_base_path names the temporary file that holds
\* the new text base: "tmp" for the one the delta made, "copied" for the
\* copied text base, "none" when there is none.  merge_outcome is the answer
\* of svn_wc__merge_internal, which is asked when the working file is merged
\* and not otherwise; when the call fails, the commands built so far are
\* lost with the buffer of the file.
merge_file(s, fb, new_text_base_path, actual_checksum, merge_outcome) ==
  LET i == Len(s.dirs)
      path == fb.path
      entry == svn_wc__get_entry(s, path, FALSE, "unknown")
      has_text == new_text_base_path # "none"
      merged ==
        loggy_merge(path, merge_outcome)
        \o (IF fb.copied_working_text
            THEN <<loggy_remove(path, "copied_working")>> ELSE <<>>)
      text_cmds ==
        IF ~has_text \/ is_replaced(s, fb) THEN <<>>
        ELSE IF ~is_locally_modified(s, fb, new_text_base_path)
          THEN IF ~fb.deleted THEN <<loggy_copy(path)>> ELSE <<>>
        ELSE IF s.disk[path].kind = "none" /\ ~fb.added_with_history
          THEN <<loggy_copy(path)>>
        ELSE IF ~fb.existed THEN merged
        ELSE <<>>
      sched == IF fb.deleted /\ ~is_replaced(s, fb)
                 THEN [schedule |-> "delete"]
               ELSE IF fb.add_existed THEN [schedule |-> "normal"]
               ELSE <<>>
      upd == IF has_text THEN modify_checksum(sched, actual_checksum)
             ELSE sched
      install == IF has_text
                 THEN <<loggy_move(path, actual_checksum, new_text_base_path,
                                   fb.text_base_path)>>
                 ELSE <<>>
      cleanup == IF fb.copied_text_base THEN <<loggy_remove(path, "copied")>>
                 ELSE <<>>
      log_accum ==
        <<loggy_tweak_entry(path, s.eb.target_revision, fb.new_URL)>>
        \o merge_props(path, fb.propchanges, fb.copied_base_props,
                       fb.copied_working_props)
        \o text_cmds \o install \o <<loggy_entry_modify(path, upd)>>
        \o cleanup
  IN  IF ~Ent(s, svn_dirent_dirname(path)).adm THEN fail(s, "not_locked")
      ELSE IF ~entry.present /\ ~fb.added THEN fail(s, "unversioned_resource")
      ELSE IF merges_working_file(s, fb, new_text_base_path)
              /\ merge_outcome = "error"
        THEN fail(s, "merge_failed")
      ELSE append_to_dir_baton(s, svn_dirent_dirname(path), log_accum)

\* A close_file that does not verify the checksum of the new text base.
close_file_unverified(s, fb, expected_checksum, merge_outcome, notify_error) ==
  LET dir == svn_dirent_dirname(fb.path)
      copy_only == fb.added_with_history /\ ~fb.received_textdelta
      chosen == choose_base_paths(s, fb.path)
      fb1 == IF copy_only THEN [fb EXCEPT !.text_base_path = chosen[3]]
             ELSE fb
      chose == set_file_baton(s, fb, fb1)
      closed(x) == [x EXCEPT !.files = @ \ {fb, fb1}]
      actual_checksum == IF copy_only THEN fb.copied_base_checksum
                         ELSE fb.actual_checksum
      new_base_path == IF copy_only
                         THEN IF fb.copied_text_base THEN "copied" ELSE "none"
                       ELSE IF fb.new_text_base_path THEN "tmp" ELSE "none"
      state == content_state(chose, fb1, new_base_path, merge_outcome)
      action == IF fb.existed \/ fb.add_existed
                  THEN IF state # "conflicted" THEN "exists"
                       ELSE "update_update"
                ELSE IF fb.added THEN "update_add" ELSE "update_update"
      bumped(s2) ==
        IF s2.pc = "failed" THEN closed(s2)
        ELSE IF (state # "unchanged" \/ fb.propchanges # <<>>)
                /\ ~in_deleted_tree(s2, fb.path, TRUE)
          THEN IF notify_error THEN fail(closed(s2), "io_error")
               ELSE closed(notify(s2, action, fb.path))
        ELSE closed(s2)
      merged(s1) ==
        IF s1.pc = "failed" THEN s1
        ELSE bumped(maybe_bump_dir_info(s1, dir))
  IN  IF fb.skipped THEN closed(maybe_bump_dir_info(s, dir))
      ELSE IF copy_only
              /\ ~(fb.text_base_path = "none" /\ ~fb.new_text_base_path
                   /\ fb.copied_text_base)
        THEN fail(s, "assertion_fail")
      ELSE IF copy_only /\ chosen[4] # "none" THEN fail(s, chosen[4])
      ELSE merged(merge_file(chose, fb1, new_base_path, actual_checksum,
                             merge_outcome))

\* close_file of an open file.  merge_outcome is what the merge of the
\* working file answers when merge_file asks for one; notify_error tells
\* whether building the notification failed (svn_dirent_get_absolute, the
\* fetch of the mime type), which happens after merge_file has appended the
\* commands of the file and after the bump.
close_file(s, fb, expected_checksum, merge_outcome, notify_error) ==
  LET dir == svn_dirent_dirname(fb.path)
      \* an add with history that received no text delta: the base paths
      \* are set up as apply_textdelta does
      copy_only == fb.added_with_history /\ ~fb.received_textdelta
      chosen == choose_base_paths(s, fb.path)
      fb1 == IF copy_only THEN [fb EXCEPT !.text_base_path = chosen[3]]
             ELSE fb
      chose == set_file_baton(s, fb, fb1)
      closed(x) == [x EXCEPT !.files = @ \ {fb, fb1}]
      actual_checksum == IF copy_only THEN fb.copied_base_checksum
                         ELSE fb.actual_checksum
      new_base_path == IF copy_only
                         THEN IF fb.copied_text_base THEN "copied" ELSE "none"
                       ELSE IF fb.new_text_base_path THEN "tmp" ELSE "none"
      state == content_state(chose, fb1, new_base_path, merge_outcome)
      \* an obstruction or an addition over a file scheduled for addition
      \* is reported as existing unless the merge left a conflict
      action == IF fb.existed \/ fb.add_existed
                  THEN IF state # "conflicted" THEN "exists"
                       ELSE "update_update"
                ELSE IF fb.added THEN "update_add" ELSE "update_update"
      \* after the bump the baton is done with, its reference to the
      \* directory given back, also when the bump or the notification fails
      bumped(s2) ==
        IF s2.pc = "failed" THEN closed(s2)
        ELSE IF (state # "unchanged" \/ fb.propchanges # <<>>)
                /\ ~in_deleted_tree(s2, fb.path, TRUE)
          THEN IF notify_error THEN fail(closed(s2), "io_error")
               ELSE closed(notify(s2, action, fb.path))
        ELSE closed(s2)
      merged(s1) ==
        IF s1.pc = "failed" THEN s1
        ELSE bumped(maybe_bump_dir_info(s1, dir))
  IN  IF fb.skipped THEN closed(maybe_bump_dir_info(s, dir))
      ELSE IF copy_only
              /\ ~(fb.text_base_path = "none" /\ ~fb.new_text_base_path
                   /\ fb.copied_text_base)
        THEN fail(s, "assertion_fail")
      ELSE IF copy_only /\ chosen[4] # "none" THEN fail(s, chosen[4])
      ELSE IF new_base_path # "none" /\ expected_checksum # NoChecksum
              /\ expected_checksum # actual_checksum
        THEN fail(chose, "checksum_mismatch")
      ELSE merged(merge_file(chose, fb1, new_base_path, actual_checksum,
                             merge_outcome))

----------------------------------------------------------------------------
\* The end of the edit

\* The URL the switch gives to a path at or below the target.
SwitchedURL(s, p) ==
  s.eb.switch_url \o SubSeq(p, Len(TargetPath(s.eb.target)) + 1, Len(p))

\* svn_wc__do_update_cleanup: every entry at or below the target path that
\* lies in no excluded tree gets the new revision and, under a switch, its
\* URL below the switch URL; entries still marked deleted are removed.
svn_wc__do_update_cleanup(s, target_path, exclude_paths) ==
  LET swept == {q \in Paths : IsPrefix(target_path, q) /\ s.entries[q].present
                              /\ SelfAndAncestors(q) \cap exclude_paths = {}}
  IN  [s EXCEPT !.entries =
         [q \in Paths |->
            IF q \notin swept THEN @[q]
            ELSE IF @[q].deleted THEN NoEntry
            ELSE IF s.eb.switch_url # NoURL
              THEN [@[q] EXCEPT !.revision = s.eb.target_revision,
                                !.url = SwitchedURL(s, q)]
            ELSE [@[q] EXCEPT !.revision = s.eb.target_revision]]]

\* A close_edit that leaves the anchor alone when the root was not opened.
close_edit_never_completes(s) ==
  LET target_path == TargetPath(s.eb.target)
      sweep(s2) ==
        LET s3 == [s2 EXCEPT !.skipped_trees = @ \ s2.deleted_trees]
        IN  IF s2.pc = "failed" \/ s2.eb.target_deleted THEN s2
            ELSE svn_wc__do_update_cleanup(s3, target_path, s3.skipped_trees)
  IN  sweep(IF s.eb.target # "" /\ svn_wc__adm_missing(s, target_path)
            THEN do_entry_deletion(s, <<>>, target_path, NoURL, 0).st
            ELSE s)

\* A close_edit that sweeps whether or not the target was deleted.
close_edit_always_sweeps(s) ==
  LET target_path == TargetPath(s.eb.target)
      sweep(s2) ==
        LET s3 == [s2 EXCEPT !.skipped_trees = @ \ s2.deleted_trees]
        IN  IF s2.pc = "failed" THEN s2
            ELSE svn_wc__do_update_cleanup(s3, target_path, s3.skipped_trees)
      complete(s1) ==
        IF s1.pc = "failed" THEN s1
        ELSE sweep(IF ~s1.eb.root_opened
                   THEN complete_directory(s1, <<>>, TRUE) ELSE s1)
  IN  complete(IF s.eb.target # "" /\ svn_wc__adm_missing(s, target_path)
               THEN do_entry_deletion(s, <<>>, target_path, NoURL, 0).st
               ELSE s)

close_edit(s) ==
  LET target_path == TargetPath(s.eb.target)
      \* the sweep, unless the target was deleted
      sweep(s2) ==
        LET s3 == [s2 EXCEPT !.skipped_trees = @ \ s2.deleted_trees]
        IN  IF s2.pc = "failed" \/ s2.eb.target_deleted THEN s2
            ELSE svn_wc__do_update_cleanup(s3, target_path, s3.skipped_trees)
      \* the root is completed here when the drive never opened it
      complete(s1) ==
        IF s1.pc = "failed" THEN s1
        ELSE sweep(IF ~s1.eb.root_opened
                   THEN complete_directory(s1, <<>>, TRUE) ELSE s1)
  IN  complete(IF s.eb.target # "" /\ svn_wc__adm_missing(s, target_path)
               THEN do_entry_deletion(s, <<>>, target_path, NoURL, 0).st
               ELSE s)

----------------------------------------------------------------------------
\* The drive

\* The edit is over once close_edit returns without an error.
----------------------------------------------------------------------------
\* Adding a file of the repository to the working copy

\* install_added_props: the log command that installs the properties of an
\* added file.
install_added_props(dst_path, new_base_props, new_props) ==
  <<[op |-> "install_props", path |-> dst_path, value |-> new_base_props]>>

\* svn_wc__loggy_entry_modify of the schedule, not forced.
loggy_entry_schedule(path, upd) ==
  [op |-> "schedule_entry", path |-> path, upd |-> upd]

\* svn_wc_add_repos_file4: the file local_abspath, whose directory has an
\* administrative area, is scheduled for addition with the text base
\* new_base_contents (a checksum) and the properties new_base_props; its
\* working file gets new_contents if the caller gives one ("none": the
\* text base is copied).  The function returns its error in err and is not
\* part of a drive.
svn_wc_add_repos_file4(s, local_abspath, new_base_contents, new_contents, new_base_props, new_props, copyfrom_url, copyfrom_rev) ==
  LET dir_abspath == svn_dirent_dirname(local_abspath)
      ent == svn_wc__get_entry(s, dir_abspath, FALSE, "dir")
      new_URL == Append(ent.url, svn_dirent_basename(local_abspath))
      dst_entry == svn_wc__get_entry(s, local_abspath, TRUE, "unknown")
      save_cmds ==
        IF dst_entry.present /\ dst_entry.schedule = "delete"
        THEN <<[op |-> "move_base_to_revert", path |-> local_abspath],
               [op |-> "revert_props_create", path |-> local_abspath]>>
        ELSE <<>>
      tmp_entry ==
        IF copyfrom_url # NoURL
        THEN [schedule |-> "add", copyfrom_url |-> copyfrom_url,
              copyfrom_rev |-> copyfrom_rev, copied |-> TRUE]
        ELSE [schedule |-> "add"]
      working_cmds ==
        IF new_contents # "none"
        THEN <<[op |-> "copy", path |-> local_abspath, text |-> new_contents]>>
        ELSE <<loggy_copy(local_abspath)>>
      log_accum ==
        save_cmds
        \o <<loggy_entry_schedule(local_abspath, tmp_entry)>>
        \o <<loggy_tweak_entry(local_abspath,
                               IF dst_entry.present THEN dst_entry.revision
                               ELSE ent.revision,
                               new_URL)>>
        \o install_added_props(local_abspath, new_base_props, new_props)
        \o working_cmds
        \o <<loggy_move(local_abspath, new_base_contents, "tmp", "base"),
             loggy_entry_modify(local_abspath,
                                modify_checksum(<<>>, new_base_contents))>>
      s1 == [s EXCEPT !.pristine.tmp = @ \cup {local_abspath}]
  IN  IF ~ent.present THEN [s EXCEPT !.err = "entry_not_found"]
      ELSE IF copyfrom_url # NoURL /\ entry_repos(ent) # NoURL
              /\ ~svn_uri_is_ancestor(entry_repos(ent), copyfrom_url)
        THEN [s EXCEPT !.err = "unsupported_feature"]
      ELSE IF copyfrom_url # NoURL /\ copyfrom_rev = SVN_INVALID_REVNUM
        THEN [s EXCEPT !.err = "assertion_fail"]
      ELSE svn_wc__run_log(svn_wc__write_log(s1, dir_abspath, 0, log_accum),
                           dir_abspath)

Finished(s) == IF s.pc = "failed" THEN s ELSE [s EXCEPT !.pc = "done"]

Did(s, op, path) == [s EXCEPT !.hist.last = [op |-> op, path |-> path],
                             !.hist.given = NoChecksum,
                             !.hist.window = NoWindow]
\* History: the window the producer sent, and whether the delta engine
\* failed on it.
Windowed(s, window, apply_err) ==
  [s EXCEPT !.hist.window = [window |-> window, apply_err |-> apply_err]]
\* History: the producer sent one more property change.
Changed(s) == [s EXCEPT !.hist.propchanges = @ + 1]
\* History: the checksum the producer gave to the operation.
Given(s, checksum) == [s EXCEPT !.hist.given = checksum]

\* History: open_root of an edit without a target, or open_directory,
\* returned without an error for the directory.
Opened(s, path) ==
  IF s.pc = "failed" \/ (path = <<>> /\ s.eb.target # "") THEN s
  ELSE [s EXCEPT !.hist.opened = @ \cup {path}]

\* History: the drive named the path in an add, an open or an absent call.
Visited(s, path) == [s EXCEPT !.hist.visited = @ \cup {path}]
\* History: the drive named the path in an add or an open call.
Driven(s, path) == [s EXCEPT !.hist.visited = @ \cup {path},
                             !.hist.driven = @ \cup {path}]
\* History: the drive deleted the path.
Deleted(s, path) == [s EXCEPT !.hist.deleted = @ \cup {path}]

\* The names the drive may pass for a child of the directory on top of the
\* stack: the children of the tree and the escaping name; at the anchor of
\* an edit with a named target, the target alone.
\* The drive names the children of one directory in a fixed order.
Rank(n) == CASE n = ".." -> 0 [] n = "f" -> 1 [] n = "g" -> 2 [] OTHER -> 3
ChildNames ==
  LET pb == dirs[Len(dirs)]
  IN  {n \in {"d", "f", "g", ".."} :
         /\ svn_dirent_join(pb.path, n) \in hist.tree \cup EscPaths
         /\ (Len(dirs) = 1 /\ eb.target # "" => n \in {eb.target, ".."})
         /\ \A m \in {"d", "f", "g", ".."} :
              Rank(m) > Rank(n) =>
                svn_dirent_join(pb.path, m) \notin hist.visited \cup hist.deleted}
DirNames == ChildNames \cap {"d", ".."}
FileNames == ChildNames \cap {"f", "g", ".."}

\* Between apply_textdelta and the last window of a file, the producer
\* sends only windows.
InDir == pc = "driving" /\ dirs # <<>> /\ closed_dirs = <<>>
         /\ \A fb \in files : ~fb.handler_baton.open
\* The producer deletes and opens only in directories it opened: a directory
\* it added has no children it could know of.
InOpened == InDir /\ ~dirs[Len(dirs)].added
TopPath == dirs[Len(dirs)].path
Fresh(path) == path \notin hist.visited \cup hist.deleted
OpenFilesOf(path) == {fb \in files : svn_dirent_dirname(fb.path) = path}
\* The files the producer may go on with: those of the directory it is in
\* or, when it closed the directory before them, those of that directory.
InDrive == pc = "driving" /\ \A fb \in files : ~fb.handler_baton.open
FilesInTurn ==
  IF closed_dirs # <<>>
  THEN {fb \in files : \E j \in 1..Len(closed_dirs) :
                         closed_dirs[j].path = svn_dirent_dirname(fb.path)}
  ELSE IF dirs # <<>> THEN OpenFilesOf(TopPath)
  ELSE {}

SetTargetRevision ==
  /\ pc = "start"
  /\ \E r \in 2..MaxRev :
       Commit([Did(set_target_revision(St, r), "set_target_revision", <<>>)
                 EXCEPT !.pc = "ready"])

OpenRoot ==
  /\ pc = "ready"
  /\ Commit([Opened(Driven(Did(open_root(St), "open_root", <<>>), <<>>),
                     <<>>)
               EXCEPT !.pc = "driving"])

DeleteEntry ==
  /\ InOpened
  /\ \E n \in ChildNames :
       LET path == svn_dirent_join(TopPath, n)
       IN  /\ Fresh(path)
           /\ Commit(Deleted(Did(delete_entry(St, n), "delete_entry", path),
                             path))

AddDirectory ==
  /\ InDir
  /\ \E n \in DirNames :
       LET path == svn_dirent_join(TopPath, n)
       IN  /\ path \notin hist.visited
           /\ Commit(Driven(Did(add_directory(St, n, FALSE),
                                 "add_directory", path),
                             path))

OpenDirectory ==
  /\ InOpened
  /\ \E n \in DirNames :
       LET path == svn_dirent_join(TopPath, n)
       IN  /\ Fresh(path)
           /\ Commit(Opened(Driven(Did(open_directory(St, n),
                                        "open_directory", path),
                                    path), path))

CloseDirectory ==
  /\ InDir
  /\ OpenFilesOf(TopPath) = {}
  /\ Commit(Did(close_directory(St), "close_directory", TopPath))

AbsentDirectory ==
  /\ InDir
  /\ \E n \in DirNames \ {".."} :
       LET path == svn_dirent_join(TopPath, n)
       IN  /\ path \notin hist.visited
           /\ Commit(Visited(Did(absent_file_or_dir(St, n, "dir"),
                                 "absent_directory", path), path))

AbsentFile ==
  /\ InDir
  /\ \E n \in FileNames \ {".."} :
       LET path == svn_dirent_join(TopPath, n)
       IN  /\ path \notin hist.visited
           /\ Commit(Visited(Did(absent_file_or_dir(St, n, "file"),
                                 "absent_file", path), path))

AddFile ==
  /\ InDir
  /\ Cardinality(files) < MaxOpenFiles
  /\ \E n \in FileNames :
       LET path == svn_dirent_join(TopPath, n)
       IN  /\ path \notin hist.visited
           \* without copyfrom arguments no entry is read through a pointer
           \* that may be null
           /\ Commit(Driven(Did(add_file(St, n, NoCopyfrom, "crash"),
                                 "add_file", path),
                             path))

OpenFile ==
  /\ InOpened
  /\ Cardinality(files) < MaxOpenFiles
  /\ \E n \in FileNames :
       LET path == svn_dirent_join(TopPath, n)
       IN  /\ Fresh(path)
           /\ Commit(Driven(Did(open_file(St, n), "open_file", path), path))

ChangeDirProp ==
  /\ InDir
  /\ hist.propchanges < MaxPropChanges
  /\ hist.last.op \in {"open_root", "add_directory", "open_directory",
                       "change_dir_prop"}
  /\ hist.last.path = TopPath
  /\ \E value \in PropValues :
       Commit(Changed(Did(change_dir_prop(St, PropName, value),
                          "change_dir_prop", TopPath)))

ChangeFileProp ==
  /\ InDir
  /\ \E fb \in OpenFilesOf(TopPath) :
       /\ hist.propchanges < MaxPropChanges
       /\ hist.last.op \in {"add_file", "open_file", "change_file_prop"}
       /\ hist.last.path = fb.path
       /\ \E value \in PropValues :
            Commit(Changed(Did(change_file_prop(St, fb, PropName, value),
                               "change_file_prop", fb.path)))

ApplyTextdelta ==
  /\ InDrive
  /\ \E fb \in FilesInTurn :
       /\ ~fb.received_textdelta
       /\ \/ /\ hist.last.op \in {"add_file", "add_file_copyfrom", "open_file",
                                 "change_file_prop"}
             /\ hist.last.path = fb.path
          \/ /\ hist.last.op = "close_directory" /\ closed_dirs # <<>>
             /\ hist.last.path = svn_dirent_dirname(fb.path)
       /\ \E base_checksum \in BaseChecksums :
            Commit(Given(Did(apply_textdelta(St, fb, base_checksum),
                             "apply_textdelta", fb.path), base_checksum))

WindowHandler ==
  /\ pc = "driving"
  /\ \E fb \in files :
       /\ fb.handler_baton.open
       /\ \E window \in {"data", "null"}, apply_err \in BOOLEAN :
            /\ window = "data" => fb.handler_baton.windows < MaxWindows
            /\ window = "null" => ~apply_err
            /\ Commit(Windowed(Did(window_handler(St, fb, window, apply_err),
                                   "window_handler", fb.path),
                               window, apply_err))

CloseFile ==
  /\ InDrive
  /\ \E fb \in FilesInTurn :
       \E expected_checksum \in ExpectedChecksums,
          merge_outcome \in MergeOutcomes, notify_error \in BOOLEAN :
         \* the merge answers only when it is asked
         /\ merge_outcome # "merged" => merges_working_file(St, fb, "tmp")
         /\ Commit(Given(Did(close_file(St, fb, expected_checksum,
                                     merge_outcome, notify_error),
                          "close_file", fb.path), expected_checksum))

\* After a failure the drive halts and the caller destroys the pools of the
\* edit.
PoolCleanup ==
  /\ pc = "failed"
  /\ Commit(Did([cleanup_dir_batons(cleanup_closed_dir_baton(St), Len(dirs))
                  EXCEPT !.pc = "halted"],
                "pool_cleanup", <<>>))

CloseEdit ==
  /\ pc = "ready" \/ (pc = "driving" /\ dirs = <<>> /\ closed_dirs = <<>>)
  /\ Commit(Did(Finished(close_edit(St)), "close_edit", <<>>))

Next ==
  \/ SetTargetRevision
  \/ OpenRoot
  \/ DeleteEntry
  \/ AddDirectory
  \/ OpenDirectory
  \/ CloseDirectory
  \/ AbsentDirectory
  \/ AbsentFile
  \/ AddFile
  \/ OpenFile
  \/ ChangeDirProp
  \/ ChangeFileProp
  \/ ApplyTextdelta
  \/ WindowHandler
  \/ CloseFile
  \/ CloseEdit
  \/ PoolCleanup

Spec == Init /\ [][Next]_vars

----------------------------------------------------------------------------
\* The drive with postfix text deltas: the producer may close a directory
\* before the files it opened in it.  It keeps the pool of the directory
\* until those files are closed, and goes on with the rest of the tree after
\* it destroyed that pool.

CloseDirectoryPostfix ==
  /\ InDir
  /\ OpenFilesOf(TopPath) # {}
  /\ Commit(Did(close_directory(St), "close_directory", TopPath))

\* apr_pool_destroy of the pool of a closed directory: cleanup_dir_baton runs
\* and its error is cleared.
DestroyDirPool ==
  /\ InDrive
  /\ closed_dirs # <<>>
  /\ FilesInTurn = {}
  /\ Commit(Did([cleanup_closed_dir_baton(St) EXCEPT !.pc = pc, !.err = err],
                "destroy_dir_pool", closed_dirs[1].path))

\* An update of the whole working copy.
InitPostfix == Init /\ eb.target = "" /\ eb.switch_url = NoURL /\ pc = "start"

NextPostfix ==
  \/ Next
  \/ CloseDirectoryPostfix
  \/ DestroyDirPool

PostfixSpec == InitPostfix /\ [][NextPostfix]_vars

----------------------------------------------------------------------------
\* The drive of a producer that sends copyfrom arguments with the
\* directories it adds.

AddDirectoryCopyfrom ==
  /\ InDir
  /\ \E n \in DirNames :
       LET path == svn_dirent_join(TopPath, n)
       IN  /\ path \notin hist.visited
           /\ Commit(Driven(Did(add_directory(St, n, TRUE),
                                 "add_directory_copyfrom", path),
                             path))

NextCopyfrom ==
  \/ Next
  \/ AddDirectoryCopyfrom

InitCopyfrom ==
  \E a \in {[path |-> <<>>, prof |-> "clean"]}
            \cup {[path |-> <<"d">>, prof |-> x] : x \in DirProfiles} :
  \E target \in Targets :
  \E allow \in (IF a.prof = "unver" THEN BOOLEAN ELSE {FALSE}) :
    Start(a, target, NoURL, allow, Paths \ {ExtraFile}, FALSE,
          "unknown", FALSE)

CopyfromSpec == InitCopyfrom /\ [][NextCopyfrom]_vars

----------------------------------------------------------------------------
\* The drive of a producer that sends copyfrom arguments with the files it
\* adds, over a working copy to which the client may have added a file of the
\* repository before.

\* The paths in the repository a file is copied from, and the copyfrom
\* arguments of add_file: well-formed ones and those with only one of the
\* two.
CopyfromPaths == {<<"trunk", "f">>, <<"trunk", "d", "f">>, <<"branch", "f">>}
Copyfroms ==
  {[path |-> q, rev |-> r] : q \in CopyfromPaths, r \in 1..MaxRev}
  \cup {[path |-> <<"trunk", "f">>, rev |-> SVN_INVALID_REVNUM],
        [path |-> NoPath, rev |-> 1]}

AddFileCopyfrom ==
  /\ InDir
  /\ Cardinality(files) < MaxOpenFiles
  /\ \E n \in FileNames, copyfrom \in Copyfroms, null_read \in NullReads :
       LET path == svn_dirent_join(TopPath, n)
       IN  /\ path \notin hist.visited
           /\ Commit(Driven(Did(add_file(St, n, copyfrom, null_read),
                                 "add_file_copyfrom", path),
                             path))

\* What the caller of svn_wc_add_repos_file4 may pass: the copy source, in
\* the repository of the working copy or in another one, with or without
\* its revision; the text base and, if any, a working text with local
\* modifications.
ReposFileCopyfroms ==
  {[url |-> NoURL, rev |-> SVN_INVALID_REVNUM],
   [url |-> SwitchRoot \o <<"f">>, rev |-> 1],
   [url |-> SwitchRoot \o <<"f">>, rev |-> SVN_INVALID_REVNUM],
   [url |-> ForeignURL \o <<"f">>, rev |-> 1]}

\* The client adds a file of the repository before the edit begins.  The
\* destination is unversioned, scheduled for deletion or a hidden entry: the
\* function schedules it for addition before the entry exists, and it is
\* locked, so its directory has an administrative area.  After an error of
\* the function the client gives up.  History: the working copy before the
\* edit is the one the function left.
AddReposFile ==
  /\ pc = "start" /\ hist.last.op = "none"
  /\ \E local_abspath \in FilePaths, copyfrom \in ReposFileCopyfroms :
     \E new_base_contents \in {"cx"}, new_contents \in {"none", "local"} :
       /\ Ent(St, svn_dirent_dirname(local_abspath)).adm
       /\ disk[local_abspath].kind # "dir"
       /\ \/ ~entries[local_abspath].present
          \/ entries[local_abspath].schedule = "delete"
          \/ entry_is_hidden(entries[local_abspath])
       /\ LET t == Did(svn_wc_add_repos_file4(St, local_abspath,
                         new_base_contents, new_contents, "v1", "v1",
                         copyfrom.url, copyfrom.rev),
                       "add_repos_file", local_abspath)
          IN  Commit([t EXCEPT !.hist.wc0 = t.entries,
                               !.pc = IF t.err = "none" THEN "start"
                                      ELSE "halted"])

NextHistory ==
  \/ Next
  \/ AddFileCopyfrom
  \/ AddReposFile

HistoryProfiles == {"mod", "none", "sdel", "srepl", "deleted"}

\* The edit names the files of the anchor directory, one of which the
\* working copy does not have, or the subdirectory whose file is missing in
\* the working copy.  The fetch callback varies over the pristine working
\* copy.
HistoryTree(a) ==
  IF a.path = <<"d", "f">> THEN {<<>>, <<"d">>, <<"d", "f">>}
  ELSE {<<>>, <<"f">>, ExtraFile}

InitHistory ==
  \E a \in {[path |-> <<>>, prof |-> "clean"]}
            \cup {[path |-> <<"f">>, prof |-> x] : x \in HistoryProfiles}
            \cup {[path |-> <<"d", "f">>, prof |-> "none"]} :
  \E fetch_func \in (IF a.prof = "clean" THEN FetchFuncs ELSE {DefaultFetch}) :
    /\ EditorStartWith(a, "", NoURL, FALSE, HistoryTree(a), FALSE, "unknown",
                       FALSE, fetch_func)
    /\ auth = NoAuth

HistorySpec == InitHistory /\ [][NextHistory]_vars

----------------------------------------------------------------------------
\* The SSL server-trust file provider (ssl_server_trust_providers.c)

\* The failure bits of a server certificate (svn_auth.h).
SVN_AUTH_SSL_NOTYETVALID == 1
SVN_AUTH_SSL_EXPIRED == 2
SVN_AUTH_SSL_CNMISMATCH == 4
SVN_AUTH_SSL_UNKNOWNCA == 8
SVN_AUTH_SSL_OTHER == 1073741824

FailureBits ==
  {SVN_AUTH_SSL_NOTYETVALID, SVN_AUTH_SSL_EXPIRED, SVN_AUTH_SSL_CNMISMATCH,
   SVN_AUTH_SSL_UNKNOWNCA, SVN_AUTH_SSL_OTHER}

RECURSIVE SumOf(_)
SumOf(S) ==
  IF S = {} THEN 0
  ELSE LET x == CHOOSE y \in S : TRUE IN x + SumOf(S \ {x})

\* The failure masks a certificate check can report.
FailureMasks == {SumOf(S) : S \in SUBSET FailureBits}

\* The bitwise operators of C on ints in two's complement: -1 has every
\* bit set, n \div 2 is the arithmetic shift and n % 2 the lowest bit.
\* a & b
RECURSIVE BitAnd(_, _)
BitAnd(a, b) ==
  IF a = 0 \/ b = 0 THEN 0
  ELSE IF a = -1 THEN b
  ELSE IF b = -1 THEN a
  ELSE (a % 2) * (b % 2) + 2 * BitAnd(a \div 2, b \div 2)

\* ~a
BitNot(a) == (-1) - a

\* a & ~b
BitAndNot(a, b) == BitAnd(a, BitNot(b))

\* a | b
BitOr(a, b) == BitNot(BitAnd(BitNot(a), BitNot(b)))

\* Strings the functions convert are sequences of characters.
DigitChars == <<"0", "1", "2", "3", "4", "5", "6", "7", "8", "9">>
IsDigit(ch) == \E i \in 1..10 : DigitChars[i] = ch
DigitValue(ch) == (CHOOSE i \in 1..10 : DigitChars[i] = ch) - 1

\* The vertical tab, the character 0x0b, written as its escape in C.
VerticalTab == "\\v"

\* The characters isspace() takes for white space.
SpaceChars == {" ", "\t", "\n", VerticalTab, "\f", "\r"}

RECURSIVE SkipSpace(_)
SkipSpace(str) ==
  IF str # <<>> /\ Head(str) \in SpaceChars THEN SkipSpace(Tail(str))
  ELSE str

\* INT_MIN and INT_MAX of a 32-bit int.
IntMin == (0 - 32768) * 65536
IntMax == 32767 * 65536 + 65535

\* The number the digits spell, kept as four digits of base 65536, the
\* lowest first, and a flag that tells whether it went beyond 64 bits.
NoDigits == <<0, 0, 0, 0, FALSE>>
RECURSIVE atoi_digits(_, _)
atoi_digits(str, acc) ==
  IF str = <<>> \/ ~IsDigit(Head(str)) THEN acc
  ELSE LET x1 == 10 * acc[1] + DigitValue(Head(str))
           x2 == 10 * acc[2] + (x1 \div 65536)
           x3 == 10 * acc[3] + (x2 \div 65536)
           x4 == 10 * acc[4] + (x3 \div 65536)
       IN  atoi_digits(Tail(str),
                       <<x1 % 65536, x2 % 65536, x3 % 65536, x4 % 65536,
                         acc[5] \/ x4 >= 65536>>)

\* The low 32 bits of the number, read as an int, with the sign applied.
LowInt(acc, negative) ==
  LET low == IF acc[2] >= 32768 THEN (acc[2] - 65536) * 65536 + acc[1]
             ELSE acc[2] * 65536 + acc[1]
  IN  IF negative /\ low # IntMin THEN 0 - low ELSE low

\* The signed number is an int, and is a 64-bit long.
FitsInt(acc, negative) ==
  /\ ~acc[5] /\ acc[4] = 0 /\ acc[3] = 0
  /\ \/ acc[2] < 32768
     \/ negative /\ acc[2] = 32768 /\ acc[1] = 0
FitsLong(acc, negative) ==
  /\ ~acc[5]
  /\ \/ acc[4] < 32768
     \/ negative /\ acc[4] = 32768 /\ acc[3] = 0 /\ acc[2] = 0 /\ acc[1] = 0

\* What atoi returns for a number that is no int: the behaviour is
\* undefined, and the C libraries differ.  "strtol_long" converts with
\* strtol to a 64-bit long, which stops at LONG_MAX and LONG_MIN, and cuts
\* the long to an int; "saturate" is strtol with a 32-bit long, which stops
\* at INT_MAX and INT_MIN; "wrap" adds the digits up in an int that wraps
\* around.
AtoiOverflows == {"strtol_long", "saturate", "wrap"}

\* atoi: leading white space is skipped, a sign is taken, and the decimal
\* digits that follow spell the number; 0 when no digit follows.
atoi(str, overflow) ==
  LET rest == SkipSpace(str)
      negative == rest # <<>> /\ Head(rest) = "-"
      signed == rest # <<>> /\ Head(rest) \in {"-", "+"}
      acc == atoi_digits(IF signed THEN Tail(rest) ELSE rest, NoDigits)
  IN  IF FitsInt(acc, negative) THEN LowInt(acc, negative)
      ELSE IF overflow = "saturate"
        THEN IF negative THEN IntMin ELSE IntMax
      ELSE IF overflow = "strtol_long" /\ ~FitsLong(acc, negative)
        THEN IF negative THEN 0 ELSE 0 - 1
      ELSE LowInt(acc, negative)

\* The "%d" format of an int.
RECURSIVE format_d(_)
format_d(n) ==
  IF n < 0 THEN <<"-">> \o format_d(0 - n)
  ELSE IF n < 10 THEN <<DigitChars[n + 1]>>
  ELSE Append(format_d(n \div 10), DigitChars[(n % 10) + 1])

\* The lower case of the words the settings and host names are made of.
ToLower(str) ==
  CASE str = "TRUE" -> "true"
    [] str = "True" -> "true"
    [] str = "SVN.EXAMPLE.ORG" -> "svn.example.org"
    [] OTHER -> str

\* strcasecmp(a, b) == 0
strcasecmp_equal(a, b) == ToLower(a) = ToLower(b)

NoSetting == "nosetting"

\* svn_config_get_server_setting: the value of the option for the server
\* group, the default when the configuration has none.
svn_config_get_server_setting(cfg, option, default) ==
  IF cfg[option] = NoSetting THEN default ELSE cfg[option]

\* The credentials file of the realm: absent, or a hash in which each of the
\* two keys may be missing.
NoCredsFile == [present |-> FALSE, ascii_cert |-> NoValue,
                failures |-> <<>>, has_failures |-> FALSE]

NoCredentials == [given |-> FALSE, trust_permanently |-> FALSE]

\* A first_credentials that takes the stored certificate for the presented
\* one without comparing their texts.
first_credentials_any_cert(a, read_error, overflow) ==
  LET failures0 == a.failures
      date_setting ==
        svn_config_get_server_setting(a.cfg, "ssl_ignore_invalid_date",
                                      "false")
      failures1 ==
        IF BitAnd(failures0, BitOr(SVN_AUTH_SSL_NOTYETVALID,
                                   SVN_AUTH_SSL_EXPIRED)) # 0
           /\ strcasecmp_equal(date_setting, "true")
        THEN BitAndNot(failures0, BitOr(SVN_AUTH_SSL_NOTYETVALID,
                                        SVN_AUTH_SSL_EXPIRED))
        ELSE failures0
      host_setting ==
        svn_config_get_server_setting(a.cfg, "ssl_override_cert_hostname",
                                      NoSetting)
      failures2 ==
        IF BitAnd(failures1, SVN_AUTH_SSL_CNMISMATCH) # 0
           /\ host_setting # NoSetting
           /\ strcasecmp_equal(host_setting, a.cert_info.hostname)
        THEN BitAndNot(failures1, SVN_AUTH_SSL_CNMISMATCH)
        ELSE failures1
      creds_hash == a.stored
      last_failures == IF creds_hash.has_failures
                       THEN atoi(creds_hash.failures, overflow) ELSE 0
      failures3 ==
        IF ~read_error /\ creds_hash.present
           /\ creds_hash.ascii_cert # NoValue
           /\ BitAndNot(failures2, last_failures) = 0
        THEN 0 ELSE failures2
  IN  [a EXCEPT !.pc = "answered",
                !.failures = failures3,
                !.credentials =
                  IF failures3 = 0
                  THEN [given |-> TRUE, trust_permanently |-> FALSE]
                  ELSE NoCredentials,
                !.asked = [failures |-> failures0, read_error |-> read_error,
                           overflow |-> overflow]]

\* ssl_server_trust_file_first_credentials on the parameters a.failures,
\* a.cert_info and a.cfg, with the credentials file a.stored; read_error
\* tells whether reading that file failed, and overflow what the atoi of
\* the C library does with a stored number that is no int.
ssl_server_trust_file_first_credentials(a, read_error, overflow) ==
  LET failures0 == a.failures
      date_setting ==
        svn_config_get_server_setting(a.cfg, "ssl_ignore_invalid_date",
                                      "false")
      failures1 ==
        IF BitAnd(failures0, BitOr(SVN_AUTH_SSL_NOTYETVALID,
                                   SVN_AUTH_SSL_EXPIRED)) # 0
           /\ strcasecmp_equal(date_setting, "true")
        THEN BitAndNot(failures0, BitOr(SVN_AUTH_SSL_NOTYETVALID,
                                        SVN_AUTH_SSL_EXPIRED))
        ELSE failures0
      host_setting ==
        svn_config_get_server_setting(a.cfg, "ssl_override_cert_hostname",
                                      NoSetting)
      failures2 ==
        IF BitAnd(failures1, SVN_AUTH_SSL_CNMISMATCH) # 0
           /\ host_setting # NoSetting
           /\ strcasecmp_equal(host_setting, a.cert_info.hostname)
        THEN BitAndNot(failures1, SVN_AUTH_SSL_CNMISMATCH)
        ELSE failures1
      creds_hash == a.stored
      last_failures == IF creds_hash.has_failures
                       THEN atoi(creds_hash.failures, overflow) ELSE 0
      failures3 ==
        IF ~read_error /\ creds_hash.present
           /\ creds_hash.ascii_cert # NoValue
           /\ a.cert_info.ascii_cert = creds_hash.ascii_cert
           /\ BitAndNot(failures2, last_failures) = 0
        THEN 0 ELSE failures2
  IN  [a EXCEPT !.pc = "answered",
                !.failures = failures3,
                !.credentials =
                  IF failures3 = 0
                  THEN [given |-> TRUE, trust_permanently |-> FALSE]
                  ELSE NoCredentials,
                !.asked = [failures |-> failures0, read_error |-> read_error,
                           overflow |-> overflow]]

\* ssl_server_trust_file_save_credentials: the certificate of the request
\* and the failures the credentials accept go to the credentials file;
\* write_error tells whether svn_config_write_auth_data failed, and then
\* the error is returned, nothing is stored and *saved is not set.
ssl_server_trust_file_save_credentials(a, accepted_failures, write_error) ==
  IF write_error
  THEN [a EXCEPT !.pc = "save_failed"]
  ELSE [a EXCEPT !.pc = "saved",
                 !.stored = [present |-> TRUE,
                             ascii_cert |-> a.cert_info.ascii_cert,
                             failures |-> format_d(accepted_failures),
                             has_failures |-> TRUE]]

\* The servers a session talks to, the certificates they present and what
\* the servers file says.
Hostname == "svn.example.org"
CertTexts == {"certA", "certB"}
DateSettings == {NoSetting, "false", "TRUE"}
HostSettings == {NoSetting, "SVN.EXAMPLE.ORG", "other.example.org"}

\* The failures strings of credentials files that some other writer left:
\* no number, a number after white space or a sign, a negative number, and
\* numbers that are no int: one more than INT_MAX, 2^32 + 8, and one beyond
\* 64 bits.
ForeignFailures ==
  {<<"x", "8">>, <<" ", "8">>, <<VerticalTab, "8">>, <<"+", "8">>,
   <<"-", "1">>, <<"-">>,
   <<"2", "1", "4", "7", "4", "8", "3", "6", "4", "8">>,
   <<"4", "2", "9", "4", "9", "6", "7", "3", "0", "4">>,
   <<"9", "9", "9", "9", "9", "9", "9", "9", "9", "9",
     "9", "9", "9", "9", "9", "9", "9", "9", "9", "9">>}

\* Credentials files that some other writer left: no certificate, no
\* failures, or failures written in another way than "%d" writes them.
ForeignFiles ==
  {NoCredsFile,
   [present |-> TRUE, ascii_cert |-> NoValue, failures |-> <<"8">>,
    has_failures |-> TRUE],
   [present |-> TRUE, ascii_cert |-> "certA", failures |-> <<>>,
    has_failures |-> FALSE]}
  \cup {[present |-> TRUE, ascii_cert |-> "certA", failures |-> str,
         has_failures |-> TRUE] : str \in ForeignFailures}

\* A request for server trust: the failures of the certificate the server
\* presented.
Request(a, failures, cert) ==
  [a EXCEPT !.pc = "request",
            !.failures = failures,
            !.cert_info = [hostname |-> Hostname, ascii_cert |-> cert],
            !.credentials = NoCredentials]

\* The provider at its first request; the update editor of the session has
\* been made and is not driven.
InitAuth ==
  /\ EditorStart([path |-> <<>>, prof |-> "clean"], "", NoURL, FALSE,
                 Paths \ {ExtraFile}, FALSE, "unknown", FALSE)
  /\ \E date \in DateSettings, host \in HostSettings, file \in ForeignFiles,
        failures \in FailureMasks, cert \in CertTexts :
    auth = [pc |-> "request",
            failures |-> failures,
            cert_info |-> [hostname |-> Hostname, ascii_cert |-> cert],
            cfg |-> [ssl_ignore_invalid_date |-> date,
                     ssl_override_cert_hostname |-> host],
            stored |-> file,
            credentials |-> NoCredentials,
            asked |-> [failures |-> failures, read_error |-> FALSE,
                       overflow |-> "saturate"]]

FirstCredentials ==
  /\ auth.pc = "request"
  /\ \E read_error \in BOOLEAN, overflow \in AtoiOverflows :
       auth' = ssl_server_trust_file_first_credentials(auth, read_error,
                                                       overflow)
  /\ UNCHANGED editor_vars

\* The session saves credentials that accept the failures left over, as the
\* user's answer to the prompt gave them.
SaveCredentials ==
  /\ auth.pc = "answered"
  /\ ~auth.credentials.given
  /\ \E write_error \in BOOLEAN :
       auth' = ssl_server_trust_file_save_credentials(auth, auth.failures,
                                                      write_error)
  /\ UNCHANGED editor_vars

\* The next connection of the session: the server presents a certificate
\* with the failures it had, to which a passed expiry date may add.
NextRequest ==
  /\ auth.pc \in {"answered", "saved", "save_failed"}
  /\ \E failures \in {auth.asked.failures,
                       BitOr(auth.asked.failures, SVN_AUTH_SSL_EXPIRED)},
        cert \in CertTexts :
       auth' = Request(auth, failures, cert)
  /\ UNCHANGED editor_vars

NextAuth ==
  \/ FirstCredentials
  \/ SaveCredentials
  \/ NextRequest

AuthSpec == InitAuth /\ [][NextAuth]_vars

----------------------------------------------------------------------------
\* The update of a working copy with one local change that a tree conflict
\* can be about: a modified, deleted, replaced or added node, a directory
\* whose content is deleted, or a file external.
ConflictProfiles == {"mod", "sdel", "srepl", "sadd", "sdel_tc", "fext"}

InitConflict ==
  \E a \in {[path |-> <<>>, prof |-> "clean"]}
            \cup {[path |-> p, prof |-> x] :
                    p \in FilePaths \ {ExtraFile},
                    x \in ConflictProfiles \cap (FileProfiles \cup {"fext"})}
            \cup {[path |-> p, prof |-> x] :
                    p \in DirPaths \ {<<>>},
                    x \in ConflictProfiles \cap DirProfiles} :
  \E target \in Targets :
    Start(a, target, NoURL, FALSE, Paths \ {ExtraFile}, FALSE,
          "unknown", FALSE)

ConflictSpec == InitConflict /\ [][Next]_vars

----------------------------------------------------------------------------
\* The update of a working copy whose anchor directory has two files, by an
\* edit that names both and may hold the baton of the first while it goes
\* through the second: the producer may put off close_file.

\* add_file while a file of the directory awaits its close_file.
AddFileBeside ==
  /\ InDir
  /\ files # {} /\ Cardinality(files) < MaxFilesTogether
  /\ \E n \in FileNames :
       LET path == svn_dirent_join(TopPath, n)
       IN  /\ path \notin hist.visited
           /\ Commit(Driven(Did(add_file(St, n, NoCopyfrom, "crash"),
                                 "add_file", path),
                             path))

\* open_file while a file of the directory awaits its close_file.
OpenFileBeside ==
  /\ InOpened
  /\ files # {} /\ Cardinality(files) < MaxFilesTogether
  /\ \E n \in FileNames :
       LET path == svn_dirent_join(TopPath, n)
       IN  /\ Fresh(path)
           /\ Commit(Driven(Did(open_file(St, n), "open_file", path), path))

\* The first file of the anchor directory is clean or locally modified.
InitTwoFiles ==
  \E a \in {x \in Anomalies : x.prof = "clean"
                                \/ (x.path = <<"f">> /\ x.prof = "mod")} :
  \E extra \in BOOLEAN :
    Start(a, "", NoURL, FALSE, Paths \ {<<"d", "f">>}, extra, "unknown",
          FALSE)

NextTwoFiles ==
  \/ Next
  \/ AddFileBeside
  \/ OpenFileBeside

TwoFilesSpec == InitTwoFiles /\ [][NextTwoFiles]_vars

----------------------------------------------------------------------------
\* The update of a working copy whose anchor directory is incomplete: an
\* earlier update of it was interrupted.

InitResume ==
  \E target \in Targets :
    Start([path |-> <<>>, prof |-> "incomplete"], target, NoURL, FALSE,
          Paths \ {ExtraFile}, FALSE, "unknown", FALSE)

ResumeSpec == InitResume /\ [][Next]_vars

----------------------------------------------------------------------------
\* The update with a sticky depth, of a pristine working copy and of one
\* whose directory d was checked out with depth files.

RequestedDepths == {"unknown", "empty", "immediates", "infinity"}

InitDepth ==
  \E a \in {[path |-> <<>>, prof |-> "clean"],
            [path |-> <<"d">>, prof |-> "shallow"]} :
  \E target \in Targets, depth \in RequestedDepths :
    Start(a, target, NoURL, FALSE, Paths \ {ExtraFile}, FALSE, depth, TRUE)

DepthSpec == InitDepth /\ [][Next]_vars

----------------------------------------------------------------------------
\* The update of a working copy with a file that was scheduled for deletion
\* while its working file, with local modifications, was kept.

InitKept ==
  \E q \in FilePaths \ {ExtraFile}, target \in Targets :
    Start([path |-> q, prof |-> "sdel_kept"], target, NoURL, FALSE,
          Paths \ {ExtraFile}, FALSE, "unknown", FALSE)

KeptSpec == InitKept /\ [][Next]_vars

-----------------------------------------------------------------------------
\* Properties

InSkipped(path) == SelfAndAncestors(path) \cap skipped_trees # {}
UnderTarget(path) == IsPrefix(TargetPath(eb.target), path)

\* The operation of the step and the path it named.
Last == hist'.last
OpenDirs == {dirs[i].path : i \in 1..Len(dirs)}

\* The commands a directory has yet to execute: its log files in the order
\* of their numbers, then the buffer of its open baton.
Pending(lfs, ds, p) ==
  CatLogs(lfs[p]) \o
  (IF \E i \in 1..Len(ds) : ds[i].path = p
   THEN ds[CHOOSE i \in 1..Len(ds) : ds[i].path = p].log_accum ELSE <<>>)
LogsUnchanged ==
  \A p \in DirPaths : Pending(logfiles', dirs', p) = Pending(logfiles, dirs, p)

\* C1: after close_edit of a fully driven edit, every path the edit added or
\* opened at or below the target and did not skip is recorded at the target
\* revision, is not incomplete when it is a directory, and under a switch
\* has the URL derived from the switch URL.
C1_DrivenAtTarget ==
  pc = "done" =>
    \A p \in hist.driven \cap Paths :
      (UnderTarget(p) /\ ~InSkipped(p)) =>
        /\ entries[p].revision = eb.target_revision
        /\ (p \in DirPaths => ~entries[p].incomplete)
        /\ (eb.switch_url # NoURL =>
              entries[p].url = eb.switch_url
                 \o SubSeq(p, Len(TargetPath(eb.target)) + 1, Len(p)))

\* C2: a path that is in skipped_trees when close_edit runs has, after
\* close_edit, the revision its entry had before the edit.  Stated for the
\* paths where it is least in doubt: those in no locally deleted
\* tree, not deleted by the edit, and with an ordinary entry before the edit.
C2_SkippedKeepRevision ==
  [][(Last.op = "close_edit" /\ pc' = "done") =>
       \A p \in ((skipped_trees \ deleted_trees) \cap Paths) \ hist.deleted :
         hist.wc0[p].schedule = "normal" =>
           entries'[p].revision = hist.wc0[p].revision]_vars

\* C3: a path on which the edit recorded a new tree conflict is in
\* skipped_trees for the rest of the drive, and from the next operation on
\* no entry strictly below it has its revision changed.  Stated for the
\* conflicts whose path is not the root of a locally deleted tree.
C3_ConflictFreezesSubtree ==
  [][/\ \A p \in hist'.raised \ deleted_trees' :
          pc' # "done" => p \in skipped_trees'
     /\ \A p \in hist.raised \ deleted_trees :
          \A q \in Paths :
            StrictlyBelow(q, p) => entries'[q].revision = entries[q].revision
    ]_vars

\* C4: in every state of a well-nested drive, the ref_count of a directory's
\* bump information is zero if and only if the directory's baton is closed
\* and no file or directory below it is open.
C4_RefCountZeroIffClosed ==
  \A p \in DOMAIN bump :
    bump[p].ref_count = 0 <=>
      /\ p \notin OpenDirs
      /\ \A fb \in files : ~StrictlyBelow(fb.path, p)
      /\ \A q \in OpenDirs : ~StrictlyBelow(q, p)

\* C5: in every state, the ref_count of a directory's bump information is
\* the number of its open child files, plus the number of its child
\* directories whose ref_count is above zero, plus one if its own baton is
\* open; it is never negative.
C5_RefCountIsReferers ==
  \A p \in DOMAIN bump :
    /\ bump[p].ref_count >= 0
    /\ bump[p].ref_count =
         Cardinality(OpenFilesOf(p))
         + Cardinality({q \in DOMAIN bump :
                          bump[q].parent = <<p>> /\ bump[q].ref_count > 0})
         + (IF p \in OpenDirs THEN 1 ELSE 0)

\* The operations C6 names, and its case: the path has a proper ancestor in
\* skipped_trees and is in no locally deleted tree.
SkipOps == {"delete_entry", "add_directory", "open_directory", "add_file",
            "open_file", "absent_file", "absent_directory"}
UnderSkipped(p) ==
  /\ p \in Paths
  /\ \E q \in skipped_trees : StrictlyBelow(p, q)
  /\ ~in_deleted_tree(St, p, TRUE)

\* C6: an operation on a path under a skipped tree and in no locally deleted
\* tree returns success, changes no entry, no log buffer and no log file,
\* and notifies nothing.
C6_SkippedIsSilent ==
  [][(Last.op \in SkipOps /\ UnderSkipped(Last.path)) =>
       /\ pc' # "failed"
       /\ entries' = entries
       /\ LogsUnchanged
       /\ notifications' = notifications]_vars

EscOps == {"delete_entry", "add_directory", "open_directory", "add_file",
           "open_file"}

\* C7: an add, an open or a delete of a child name that escapes the parent
\* fails with obstructed_update, changes no entry, appends no log command
\* and writes nothing on disk.
C7_EscapeIsObstructed ==
  [][(Last.op \in EscOps /\ Last.path \in EscPaths) =>
       /\ pc' = "failed" /\ err' = "obstructed_update"
       /\ entries' = entries
       /\ LogsUnchanged
       /\ disk' = disk]_vars

\* The case of C8: delete_entry named a versioned file, schedule normal,
\* whose working text is locally modified.
C8_Case ==
  /\ Last.op = "delete_entry" /\ Last.path \in FilePaths
  /\ LET e == entries[Last.path]
     IN  /\ e.present /\ e.kind = "file" /\ e.schedule = "normal"
         /\ ~entry_is_hidden(e)
         /\ text_modified(St, Last.path)

\* C8: delete_entry on a locally modified versioned file deletes nothing:
\* it records a tree conflict with reason edited, puts the path in
\* skipped_trees, schedules the entry for addition as a copy of its old URL
\* and revision, leaves the working file alone and returns success.
C8_DeleteOfModifiedFile ==
  [][C8_Case =>
       LET p == Last.path
       IN  /\ pc' # "failed"
           /\ conflicts'.tree[p] = "edited"
           /\ p \in skipped_trees'
           /\ entries'[p].present
           /\ entries'[p].schedule = "add" /\ entries'[p].copied
           /\ entries'[p].copyfrom_url = entries[p].url
           /\ entries'[p].copyfrom_rev = entries[p].revision
           /\ disk'[p] = disk[p]]_vars

\* The step reached the state C8 describes.
C8_Witness ==
  /\ hist.last.op = "delete_entry" /\ hist.last.path \in FilePaths
  /\ pc = "driving"
  /\ conflicts.tree[hist.last.path] = "edited"
  /\ hist.last.path \in skipped_trees
  /\ entries[hist.last.path].schedule = "add"
  /\ entries[hist.last.path].copied
  /\ entries[hist.last.path].copyfrom_rev = hist.wc0[hist.last.path].revision
  /\ disk[hist.last.path].text = "local"

\* A directory is done while another still has more than one referer.
C4_Witness ==
  /\ pc = "driving"
  /\ \E p \in DOMAIN bump : p # <<>> /\ bump[p].ref_count = 0
  /\ \E q \in DOMAIN bump : bump[q].ref_count > 1 /\ files # {}

\* A directory is referred to by its own baton, an open file and an open
\* child directory at once.
C5_Witness ==
  \E p \in DOMAIN bump :
    /\ bump[p].ref_count = 3
    /\ OpenFilesOf(p) # {}
    /\ \E q \in OpenDirs : svn_dirent_dirname(q) = p /\ q # p

TargetP == TargetPath(eb.target)

\* The case of C9: delete_entry named the target and took the normal
\* deletion path.
C9_Case ==
  /\ Last.op = "delete_entry" /\ eb.target # "" /\ Last.path = TargetP
  /\ pc' # "failed"
  /\ LET e == Ent(St, TargetP)
     IN  /\ e.present /\ e.depth # "exclude"
         /\ ~(in_skipped_tree(St, TargetP) /\ ~in_deleted_tree(St, TargetP, TRUE))
         /\ ~already_in_a_tree_conflict(St, TargetP)
         /\ check_tree_conflict(St, TargetP, e, "delete")
              \notin {"edited", "replaced"}

\* What C9 says of single steps: the normal deletion of the target sets
\* target_deleted and leaves a deleted entry at the target revision; a
\* close_edit that finds target_deleted set sweeps nothing; the delete of
\* another path does not touch target_deleted.
C9_Steps ==
  /\ C9_Case =>
       /\ eb'.target_deleted
       /\ entries'[TargetP].present /\ entries'[TargetP].deleted
       /\ entries'[TargetP].revision = eb.target_revision
  /\ (Last.op = "close_edit" /\ eb.target_deleted) => entries' = entries
  /\ (Last.op = "delete_entry" /\ (eb.target = "" \/ Last.path # TargetP)) =>
       eb'.target_deleted = eb.target_deleted

\* The edit is over and had deleted its target through the normal path.
C9_TargetWasDeleted ==
  /\ pc' = "done" /\ eb'.target_deleted
  /\ TargetP \in hist'.deleted /\ hist.wc0[TargetP].depth # "exclude"

\* C9 as stated: after the normal deletion of the target, close_edit does
\* not sweep and the deleted entry of the target is there after close_edit.
C9_StubSurvives ==
  [][/\ C9_Steps
     /\ C9_TargetWasDeleted =>
          /\ entries'[TargetP].deleted
          /\ entries'[TargetP].revision = eb'.target_revision]_vars

\* C9, amended: the deleted entry of the target is there after close_edit
\* unless the drive named the target again after deleting it: an add of the
\* target (a replacement) and an absent_file or absent_directory of the
\* target both write over the deleted entry.
C9_StubSurvivesUnlessReadded ==
  [][/\ C9_Steps
     /\ (C9_TargetWasDeleted /\ TargetP \notin hist'.visited) =>
          /\ entries'[TargetP].deleted
          /\ entries'[TargetP].revision = eb'.target_revision]_vars

\* The edit ended after deleting its target, the deleted entry in place.
C9_Witness ==
  /\ pc = "done" /\ eb.target_deleted
  /\ TargetP \in hist.deleted /\ TargetP \notin hist.visited
  /\ hist.wc0[TargetP].schedule = "normal" /\ ~hist.wc0[TargetP].deleted
  /\ entries[TargetP].deleted
  /\ entries[TargetP].revision = eb.target_revision

AbsentOps == {"absent_file", "absent_directory"}

\* C10: absent_file and absent_directory, in a directory that has its
\* administrative area, fail with obstructed_update and change no entry
\* when the name has an entry scheduled for addition, and otherwise leave
\* an entry of the given kind at the target revision, absent and not
\* deleted.
C10_AbsentEntry ==
  [][(Last.op \in AbsentOps /\ entries[svn_dirent_dirname(Last.path)].adm) =>
       LET p == Last.path
           e == svn_wc__get_entry(St, p, FALSE, "unknown")
           k == IF Last.op = "absent_file" THEN "file" ELSE "dir"
       IN  IF e.present /\ e.schedule = "add"
           THEN /\ pc' = "failed" /\ err' = "obstructed_update"
                /\ entries' = entries
           ELSE /\ pc' # "failed"
                /\ entries'[p].present /\ entries'[p].kind = k
                /\ entries'[p].revision = eb.target_revision
                /\ entries'[p].absent /\ ~entries'[p].deleted]_vars

\* One name was marked absent and the next was refused because its entry is
\* scheduled for addition.
C10_Witness ==
  /\ hist.last.op \in AbsentOps
  /\ pc = "failed" /\ err = "obstructed_update"
  /\ entries[hist.last.path].schedule = "add"
  /\ \E q \in hist.visited \cap Paths :
       /\ q # hist.last.path
       /\ entries[q].absent /\ ~entries[q].deleted
       /\ entries[q].revision = eb.target_revision

AddOps == {"add_directory", "add_file"}
Notified(ns, action, path) ==
  LET n == [action |-> action, path |-> path]
  IN  IF n \in DOMAIN ns THEN ns[n] ELSE 0

\* The add reaches the test of the node on disk: the path lies in no skipped
\* tree (or in a locally deleted one) and is in no tree conflict of before.
C11_Case ==
  /\ Last.op \in AddOps
  /\ Last.path \in Paths
  /\ disk[Last.path].kind = NodeKind(Last.path)
  /\ ~entries[Last.path].present
  /\ ~(in_skipped_tree(St, Last.path) /\ ~in_deleted_tree(St, Last.path, TRUE))
  /\ ~already_in_a_tree_conflict(St, Last.path)
  /\ entries[svn_dirent_dirname(Last.path)].adm

\* C11: add_directory or add_file on a name where an unversioned node of
\* the same kind is on disk: when unversioned obstructions are not allowed
\* it notifies update_obstruction, fails with obstructed_update and makes no
\* entry; when they are allowed it marks the baton existed and goes on.
C11_UnversionedObstruction ==
  [][C11_Case =>
       LET p == Last.path
       IN  IF ~eb.allow_unver_obstructions
           THEN /\ pc' = "failed" /\ err' = "obstructed_update"
                /\ Notified(notifications', "update_obstruction", p)
                     = Notified(notifications, "update_obstruction", p) + 1
                /\ entries' = entries
           ELSE /\ pc' # "failed"
                /\ Last.op = "add_directory" =>
                     /\ dirs'[Len(dirs')].path = p
                     /\ dirs'[Len(dirs')].existed
                     /\ entries'[p].present
                /\ Last.op = "add_file" =>
                     \E fb \in files' : fb.path = p /\ fb.existed /\ fb.added
                                         /\ ~fb.skipped]_vars

\* An add was refused over an unversioned node of its kind.
C11_Witness ==
  /\ hist.last.op \in AddOps
  /\ pc = "failed" /\ err = "obstructed_update"
  /\ hist.last.path \in Paths
  /\ disk[hist.last.path].kind = NodeKind(hist.last.path)
  /\ ~entries[hist.last.path].present
  /\ ~eb.allow_unver_obstructions
  /\ Notified(notifications, "update_obstruction", hist.last.path) = 1

\* An add went on over an unversioned node of its kind.
C11_WitnessAllowed ==
  /\ eb.allow_unver_obstructions
  /\ \/ \E fb \in files : fb.existed /\ fb.added
     \/ \E i \in 1..Len(dirs) : dirs[i].existed /\ dirs[i].added


\* The checksum the entry of path records for its text base, as
\* apply_textdelta reads it.
RecordedChecksum(path) == choose_base_paths(St, path)[1]
Replaced(path) == choose_base_paths(St, path)[2]
TheFile(fs, path) == {fb \in fs : fb.path = path}

\* C12: apply_textdelta on a file that is not replaced and whose entry
\* records a checksum, given a base checksum that differs from it, fails with
\* corrupt_text_base: the working file, the text base and the entry are as
\* they were, the file baton has no new text base, and nothing of the file
\* is in the temporary area.
C12_BaseChecksumMismatch ==
  [][\A fb \in files :
       (/\ Last.op = "apply_textdelta" /\ Last.path = fb.path
        /\ ~fb.skipped
        /\ ~Replaced(fb.path)
        /\ RecordedChecksum(fb.path) # NoChecksum
        /\ hist'.given \notin {NoChecksum, RecordedChecksum(fb.path)})
       => /\ pc' = "failed" /\ err' = "corrupt_text_base"
          /\ disk' = disk /\ entries' = entries /\ pristine' = pristine
          /\ logfiles' = logfiles
          /\ \A fb2 \in TheFile(files', fb.path) :
                ~fb2.new_text_base_path /\ ~fb2.handler_baton.open
          /\ fb.path \notin pristine'.tmp]_vars

C12_Witness ==
  /\ pc = "failed" /\ err = "corrupt_text_base"
  /\ hist.last.op = "apply_textdelta"
  /\ hist.given = "cx"
  /\ entries[hist.last.path].checksum = "c1"
  /\ pristine.base[hist.last.path] = "c1"
  /\ pristine.tmp = {}
  /\ \E fb \in files : fb.path = hist.last.path /\ fb.received_textdelta
                        /\ ~fb.new_text_base_path

\* C13: close_file with an expected checksum other than the one computed
\* for the new text base fails with checksum_mismatch before merge_file: the
\* log buffers and log files, the entries, the text bases and the working
\* files are as they were.
C13_ExpectedChecksumMismatch ==
  [][\A fb \in files :
       (/\ Last.op = "close_file" /\ Last.path = fb.path
        /\ ~fb.skipped
        /\ fb.new_text_base_path
        /\ hist'.given \notin {NoChecksum, fb.actual_checksum})
       => /\ pc' = "failed" /\ err' = "checksum_mismatch"
          /\ dirs' = dirs /\ logfiles' = logfiles
          /\ entries' = entries /\ pristine'.base = pristine.base
          /\ disk' = disk]_vars

C13_Witness ==
  /\ pc = "failed" /\ err = "checksum_mismatch"
  /\ hist.last.op = "close_file"
  /\ hist.given = "cx"
  /\ \E fb \in files : /\ fb.path = hist.last.path
                        /\ fb.new_text_base_path
                        /\ fb.actual_checksum = "c2"
  /\ dirs[Len(dirs)].log_accum = <<>>
  /\ entries[hist.last.path].checksum = "c1"

TextOps == {"apply_textdelta", "window_handler", "close_file"}

\* C14: when apply_textdelta, a call of the window handler or close_file has
\* failed, the temporary area holds no new text base of the file the
\* operation was about.
C14_NoTempAfterFailure ==
  (pc = "failed" /\ hist.last.op \in TextOps)
    => hist.last.path \notin pristine.tmp

\* The failures of apply_textdelta and of the window handler do leave no
\* temporary file.
C14_HandlerFailureCleansUp ==
  (pc = "failed" /\ hist.last.op \in {"apply_textdelta", "window_handler"})
    => hist.last.path \notin pristine.tmp

\* C15: after a failure, when the drive has halted and the open dir batons
\* are destroyed, the commands in the log buffers have not been executed and
\* the log files that were written are still there, not run: the entries,
\* the disk, the conflicts and the text bases are as they were at the failure,
\* and so are the log files.
C15_HaltRunsNoLog ==
  [][pc = "failed" =>
       /\ entries' = entries /\ disk' = disk /\ conflicts' = conflicts
       /\ pristine' = pristine
       /\ logfiles' = logfiles]_vars

\* C16: every open_directory that succeeds, whether or not it found the
\* directory conflicted or skipped, leaves the entry of the directory with
\* the target revision, the new URL of its baton, and incomplete.
C16_OpenDirectoryMarksIncomplete ==
  [][(Last.op = "open_directory" /\ pc' # "failed")
       => /\ dirs' # <<>> /\ dirs'[Len(dirs')].path = Last.path
          /\ Last.path \in Paths
          /\ entries'[Last.path].revision = eb.target_revision
          /\ entries'[Last.path].url = dirs'[Len(dirs')].new_URL
          /\ entries'[Last.path].incomplete]_vars

\* C17: in every state of an edit, no path is both in skipped_trees and in
\* deleted_trees.
C17_SkippedDeletedDisjoint == skipped_trees \cap deleted_trees = {}

\* C18: in every state, a path in skipped_trees has no proper ancestor in
\* deleted_trees.
C18_SkippedNotBelowDeleted ==
  \A p \in skipped_trees :
    \A q \in deleted_trees : q = p \/ ~IsPrefix(q, p)

\* C17, amended: a path is both in skipped_trees and in deleted_trees only
\* as the root of a locally deleted tree, that is a path scheduled for
\* deletion or replacement before the edit on which the edit raised a tree
\* conflict.
C17_BothOnlyDeletionRoots ==
  \A p \in skipped_trees \cap deleted_trees :
    /\ p \in Paths
    /\ p \in hist.raised
    /\ hist.wc0[p].schedule \in {"delete", "replace"}

C17_Witness ==
  /\ hist.last.op \in {"open_directory", "open_file"}
  /\ hist.last.path \in skipped_trees \cap deleted_trees
  /\ hist.last.path \in hist.raised
  /\ pc = "driving"

\* The drive that changes nothing: make_editor made the editor, no target is
\* named and, but for the root, nothing was opened, added, deleted or declared
\* absent.
NoOpDrive ==
  /\ err # "invalid_switch"
  /\ eb.target = ""
  /\ hist.visited \subseteq {<<>>} /\ hist.deleted = {}
FileCommands(cmds) ==
  {k \in 1..Len(cmds) : cmds[k].path \in FilePaths}

\* C19: the drive of set_target_revision, open_root, close_directory and
\* close_edit alone, with no named target, does not fail; the root is
\* incomplete, at the target revision, while its baton is open, and at the
\* target revision and not incomplete when the edit is done; no log buffer
\* and no log file ever holds a command for a file.
C19_NoOpDriveCompletesRoot ==
  NoOpDrive =>
    /\ pc \notin {"failed", "halted"}
    /\ (pc = "driving" /\ dirs # <<>>)
         => /\ entries[<<>>].incomplete
            /\ entries[<<>>].revision = eb.target_revision
    /\ (pc = "done" /\ <<>> \in hist.visited)
         => /\ ~entries[<<>>].incomplete
            /\ entries[<<>>].revision = eb.target_revision
    /\ \A i \in 1..Len(dirs) : FileCommands(dirs[i].log_accum) = {}
    /\ \A d \in DOMAIN logfiles : \A n \in DOMAIN logfiles[d] :
         FileCommands(logfiles[d][n]) = {}

C19_Witness ==
  /\ NoOpDrive /\ pc = "done" /\ <<>> \in hist.visited
  /\ hist.last.op = "close_edit"
  /\ hist.wc0[<<>>].revision = 1 /\ entries[<<>>].revision = 2
  /\ ~entries[<<>>].incomplete
  /\ dirs = <<>>

\* What a property change leaves alone, besides the batons.
PropChangeFrame ==
  /\ eb' = eb /\ skipped_trees' = skipped_trees
  /\ deleted_trees' = deleted_trees
  /\ entries' = entries /\ disk' = disk /\ conflicts' = conflicts
  /\ bump' = bump /\ logfiles' = logfiles
  /\ notifications' = notifications /\ pristine' = pristine
  /\ pc' = pc /\ err' = err
\* The list of property changes after the operation: as it was on a baton
\* whose path lies in a skipped tree, one change longer on any other.
PropChangesAfter(path, propchanges) ==
  IF InSkipped(path) THEN {propchanges}
  ELSE {Append(propchanges, [name |-> PropName, value |-> v]) :
          v \in PropValues}

\* C20: change_dir_prop and change_file_prop leave the list of property
\* changes of a baton that was skipped at its add or open (its path lies in
\* a skipped tree or was itself found conflicted) as it is; on any other
\* baton they append exactly one change to the list; they change nothing
\* else.
C20_PropChangeAppendsUnlessSkipped ==
  [][/\ Last.op = "change_dir_prop" =>
          /\ PropChangeFrame /\ files' = files
          /\ Len(dirs') = Len(dirs)
          /\ \A k \in 1..Len(dirs) :
               /\ [dirs'[k] EXCEPT !.propchanges = <<>>]
                    = [dirs[k] EXCEPT !.propchanges = <<>>]
               /\ dirs'[k].propchanges \in
                    IF k = Len(dirs)
                    THEN PropChangesAfter(dirs[k].path, dirs[k].propchanges)
                    ELSE {dirs[k].propchanges}
     /\ Last.op = "change_file_prop" =>
          /\ PropChangeFrame /\ dirs' = dirs
          /\ \E fb \in files :
               /\ fb.path = Last.path
               /\ \E pcs \in PropChangesAfter(fb.path, fb.propchanges) :
                    files' = (files \ {fb})
                               \cup {[fb EXCEPT !.propchanges = pcs]}]_vars

\* The working file of fb carries local modifications, as merge_file
\* finds out: a saved copy of a locally modified copy source, else against
\* the text base or, for an obstruction, against the new text base.
LocallyModified(fb) ==
  IF fb.copied_working_text THEN TRUE
  ELSE IF ~fb.existed THEN text_modified(St, fb.path)
  ELSE disk[fb.path].text # "new"
\* The commands the step appended to the buffer of the directory on top.
Appended ==
  SubSeq(dirs'[Len(dirs)].log_accum, Len(dirs[Len(dirs)].log_accum) + 1,
         Len(dirs'[Len(dirs)].log_accum))
CopiesNewText(cmds, path) ==
  \E k \in 1..Len(cmds) :
    cmds[k].op = "copy" /\ cmds[k].path = path /\ cmds[k].text = "new"

\* The last command of cmds that writes or removes the working file of path.
LastOnDisk(cmds, path) ==
  LET ks == {k \in 1..Len(cmds) :
               \/ cmds[k].op = "copy" /\ cmds[k].path = path
               \/ cmds[k].op = "delete_entry" /\ IsPrefix(cmds[k].path, path)}
  IN  IF ks = {} THEN 0 ELSE CHOOSE k \in ks : \A j \in ks : j <= k
\* close_directory ran the log of the directory on top of the stack.
RanTopLog ==
  /\ Last.op = "close_directory" /\ pc' # "failed"
  /\ ~(InSkipped(TopPath) /\ ~in_deleted_tree(St, TopPath, TRUE))

\* C21: every file that is not skipped, has no local modifications and
\* closes with a new text base gets, among the commands close_file appends
\* to the log buffer of its directory, a copy of the new text base onto the
\* working file, and when the log of the directory has run the working file
\* has the new text.
C21_NewTextReachesWorkingFile ==
  [][\A fb \in files :
       (/\ Last.op = "close_file" /\ Last.path = fb.path /\ pc' # "failed"
        /\ ~fb.skipped /\ fb.new_text_base_path
        /\ ~LocallyModified(fb))
       => /\ Len(dirs') = Len(dirs)
          /\ CopiesNewText(Appended, fb.path)]_vars

\* C21, amended: the same for the files that are not locally deleted and
\* not scheduled for replacement.
C21_NewTextReachesUndeletedFile ==
  [][/\ \A fb \in files :
          (/\ Last.op = "close_file" /\ Last.path = fb.path
           /\ pc' # "failed"
           /\ ~fb.skipped /\ fb.new_text_base_path
           /\ ~LocallyModified(fb)
           /\ ~fb.deleted /\ ~Replaced(fb.path))
          => /\ Len(dirs') = Len(dirs)
             /\ CopiesNewText(Appended, fb.path)
     /\ RanTopLog =>
          \A p \in FilePaths :
            LET cmds == Pending(logfiles, dirs, TopPath)
                k == LastOnDisk(cmds, p)
            IN  (k > 0 /\ cmds[k].op = "copy" /\ cmds[k].text = "new")
                  => disk'[p] = [kind |-> "file", text |-> "new"]]_vars

C21_Witness ==
  /\ hist.last.op = "close_directory" /\ pc = "driving"
  /\ \E p \in FilePaths :
       /\ svn_dirent_dirname(p) = hist.last.path
       /\ p \in hist.driven
       /\ disk[p] = [kind |-> "file", text |-> "new"]
       /\ pristine.base[p] = "c2"
       /\ entries[p].checksum = "c2"



\* C22: creating a switch editor whose switch URL is not under the repository
\* root recorded for the anchor fails with invalid_switch, and no edit context
\* exists: no baton is ever made and no operation of the editor ever runs.
C22_InvalidSwitchCreatesNoEditor ==
  (hist.switch_url # NoURL /\ ~svn_uri_is_ancestor(ReposRoot, hist.switch_url))
    => /\ pc \in {"failed", "halted"}
       /\ err = "invalid_switch"
       /\ eb = NoEditor
       /\ dirs = <<>> /\ files = {} /\ bump = <<>>
       /\ hist.last.op \in {"none", "pool_cleanup"}
       /\ entries = hist.wc0

C22_Witness ==
  /\ hist.switch_url = ForeignURL
  /\ pc = "failed" /\ err = "invalid_switch"
  /\ hist.last = NoOp

\* The calls of complete_directory the step made, in their order.
NewlyCompleted ==
  SubSeq(hist'.completed, Len(hist.completed) + 1, Len(hist'.completed))
\* The position of the call of complete_directory for p in the history.
CompletedAt(h, p) ==
  IF \E k \in 1..Len(h) : h[k].path = p
  THEN CHOOSE k \in 1..Len(h) : h[k].path = p ELSE 0

\* C23: complete_directory runs at most once per directory; the completion
\* cascade never runs it for a directory whose bump information is marked
\* skipped, and runs it only in the close that takes the last reference of
\* the directory: after the step the directory's baton, its files and its
\* child directories are all closed; every child directory that is not
\* marked skipped was completed before its parent.
C23_CompletedOnceWhenAllClosed ==
  [][/\ \A j, k \in 1..Len(hist'.completed) :
          hist'.completed[j].path = hist'.completed[k].path => j = k
     /\ \A k \in 1..Len(NewlyCompleted) :
          LET p == NewlyCompleted[k].path
          IN  Last.op # "close_edit" =>
                /\ Last.op \in {"close_directory", "close_file"}
                /\ IsPrefix(p, Last.path)
                /\ p \in DOMAIN bump
                /\ ~bump'[p].skipped
                /\ bump[p].ref_count > 0 /\ bump'[p].ref_count = 0
                /\ \A fb \in files' : svn_dirent_dirname(fb.path) # p
                /\ pc' # "failed" =>
                      \A i \in 1..Len(dirs') : ~IsPrefix(p, dirs'[i].path)
                /\ \A c \in DOMAIN bump' :
                     bump'[c].parent = <<p>> =>
                       /\ bump'[c].ref_count = 0
                       /\ ~bump'[c].skipped =>
                             /\ CompletedAt(hist'.completed, c) > 0
                             /\ CompletedAt(hist'.completed, c)
                                  < CompletedAt(hist'.completed, p)]_vars

C23_Witness ==
  /\ Len(hist.completed) = 2
  /\ hist.completed[1].path = <<"d">> /\ hist.completed[2].path = <<>>
  /\ hist.last.op = "close_directory" /\ hist.last.path = <<>>
  /\ pc = "driving" /\ dirs = <<>>
  /\ <<"d", "f">> \in hist.driven /\ <<"f">> \in hist.driven

\* C24: every decrement of the reference count of a directory's bump
\* information (by the close of the directory, of a child file or of a child
\* directory) happens when the directory has no unexecuted log commands: the
\* log buffer of its baton is empty and none of its log files waits to be
\* run.  Nothing is written to a log after the decrement within the step.
C24_DecrementAfterLogRan ==
  [][\A p \in DOMAIN bump :
       bump'[p].ref_count < bump[p].ref_count
         => Pending(logfiles', dirs', p) = <<>>]_vars

\* C25: complete_directory never runs on a directory that still holds
\* commands in the log buffer of its baton or has log files that were not
\* run, also when a file is closed after its directory (postfix close).
C25_CompletedAfterLogRan ==
  \A k \in 1..Len(hist.completed) : ~hist.completed[k].unexecuted

\* The log files the step wrote for directory p, and the commands it ran
\* for p, in their order.
RECURSIVE Cat(_)
Cat(seqs) == IF seqs = <<>> THEN <<>> ELSE Head(seqs) \o Cat(Tail(seqs))
LoggedFor(p) ==
  LET IsFor(x) == x.dir = p IN SelectSeq(hist'.logged, IsFor)
WrittenFor(p) ==
  LET IsFor(x) == x.dir = p /\ x.e = "write" IN SelectSeq(hist'.logged, IsFor)
RanFor(p) ==
  LET IsFor(x) == x.dir = p /\ x.e = "run"
      rs == SelectSeq(hist'.logged, IsFor)
  IN  Cat([k \in 1..Len(rs) |-> rs[k].cmds])

\* C26: add_directory and open_directory of a child of P first write P's
\* non-empty log buffer to the log file with P's current number, whether or
\* not the call then succeeds: what P's buffer holds afterwards concerns the
\* child alone.  close_directory writes the buffer to a log file and runs it
\* after the log files written before.  A flush of an empty buffer writes no
\* file and leaves the number as it is.
C26_FlushBeforeChildAndRun ==
  [][dirs # <<>> =>
       LET pbi == Len(dirs)
           pb == dirs[pbi]
           P == pb.path
       IN  /\ Last.op \in {"add_directory", "open_directory"} =>
                IF pb.log_accum # <<>>
                THEN /\ hist'.logged # <<>>
                     /\ hist'.logged[1] = [e |-> "write", dir |-> P,
                                           number |-> pb.log_number,
                                           cmds |-> pb.log_accum]
                     /\ pb.log_number \in DOMAIN logfiles'[P]
                     /\ logfiles'[P][pb.log_number] = pb.log_accum
                     /\ dirs'[pbi].log_number = pb.log_number + 1
                     /\ \A k \in 1..Len(dirs'[pbi].log_accum) :
                          dirs'[pbi].log_accum[k].path = Last.path
                ELSE /\ WrittenFor(P) = <<>>
                     /\ logfiles'[P] = logfiles[P]
                     /\ dirs'[pbi].log_number = pb.log_number
           /\ (/\ Last.op = "close_directory"
               /\ ~(InSkipped(P) /\ ~in_deleted_tree(St, P, TRUE))
               /\ entries[P].adm) =>
                /\ pb.log_accum # <<>> =>
                     /\ WrittenFor(P) # <<>>
                     /\ WrittenFor(P)[1].number = pb.log_number
                     /\ IsPrefix(pb.log_accum, WrittenFor(P)[1].cmds)
                /\ IsPrefix(CatLogs(logfiles[P])
                              \o (IF WrittenFor(P) # <<>>
                                  THEN WrittenFor(P)[1].cmds ELSE <<>>),
                            RanFor(P))
                /\ WrittenFor(P) = <<>> => RanFor(P) = CatLogs(logfiles[P])]_vars

C26_Witness ==
  /\ hist.last.op \in {"add_directory", "open_directory"}
  /\ pc = "driving"
  /\ hist.logged # <<>>
  /\ hist.logged[1].e = "write"
  /\ hist.logged[1].dir = <<>> /\ hist.logged[1].number = 0
  /\ logfiles[<<>>] # <<>>
  /\ Len(dirs) = 2

\* C27: while a child directory of P is open, from the return of its
\* add_directory or open_directory to its close_directory, the log buffer of
\* P's baton is empty.
C27_ParentBufferEmpty ==
  pc = "driving" => \A i \in 1..(Len(dirs) - 1) : dirs[i].log_accum = <<>>

\* The log files of one directory written in a step carry the numbers n,
\* n + 1, ... and start again at 0 after each run.
RECURSIVE NumberedFrom(_, _)
NumberedFrom(events, n) ==
  IF events = <<>> THEN TRUE
  ELSE IF Head(events).e = "run" THEN NumberedFrom(Tail(events), 0)
  ELSE Head(events).number = n /\ NumberedFrom(Tail(events), n + 1)

\* C28: the log files of a directory written between two runs of its log
\* carry the numbers 0, 1, 2, ... in the order they were written, none
\* skipped or reused: each file written gets the number that follows those
\* of the files waiting to be run, and the baton's number is the count of
\* the files waiting.  After a run of the log in close_directory or
\* delete_entry the baton's number is 0.
C28_LogNumbersInSequence ==
  [][/\ \A p \in DirPaths :
          /\ DOMAIN logfiles'[p] = 0..(Cardinality(DOMAIN logfiles'[p]) - 1)
          /\ NumberedFrom(LoggedFor(p), Cardinality(DOMAIN logfiles[p]))
     /\ \A i \in 1..Len(dirs') :
          /\ pc' = "driving" =>
                dirs'[i].log_number = Cardinality(DOMAIN logfiles'[dirs'[i].path])
          /\ (/\ Last.op \in {"close_directory", "delete_entry"}
              /\ LoggedFor(dirs'[i].path) # <<>>
              /\ LoggedFor(dirs'[i].path)[Len(LoggedFor(dirs'[i].path))].e
                   = "run")
               => dirs'[i].log_number = 0]_vars
\* The commands staged by close_file, by property changes and by
\* delete_entry: all but the tree conflicts recorded at an add or open.
Staged(cmds) ==
  LET IsStaged(c) == c.op # "add_tree_conflict" IN SelectSeq(cmds, IsStaged)

\* C29: the log commands of a directory are executed in the order in which
\* the operations that produced them (close_file, property changes,
\* delete_entry) arrived: in every step the commands the directory had yet
\* to execute are the first to be run or are still waiting, in their order,
\* ahead of the commands the step added.
C29_RunInArrivalOrder ==
  [][\A p \in DirPaths :
       IsPrefix(Staged(Pending(logfiles, dirs, p)),
                Staged(RanFor(p) \o Pending(logfiles', dirs', p)))]_vars
----------------------------------------------------------------------------
\* The log buffer of the baton of directory p, open or closed; empty when
\* the directory has no baton.
BufferOf(ds, cds, p) ==
  IF \E i \in 1..Len(ds) : ds[i].path = p
  THEN ds[CHOOSE i \in 1..Len(ds) : ds[i].path = p].log_accum
  ELSE IF \E j \in 1..Len(cds) : cds[j].path = p
  THEN cds[CHOOSE j \in 1..Len(cds) : cds[j].path = p].log_accum
  ELSE <<>>
\* The commands of one path lie next to each other in cmds.
Contiguous(cmds) ==
  \A i \in 1..Len(cmds), k \in 1..Len(cmds) :
    (i < k /\ cmds[i].path = cmds[k].path) =>
      \A j \in i..k : cmds[j].path = cmds[i].path
\* The commands of cmds after the first n.
After(cmds, n) == SubSeq(cmds, n + 1, Len(cmds))

\* C30: close_file adds the commands of its file to the buffer of the parent
\* directory in one append made after all of them were built: a close_file
\* that fails leaves the buffer as it was, one that succeeds leaves the
\* earlier content in place and adds commands of its own file only; the
\* commands of two files are never interleaved in a buffer; and a step that
\* does not flush the buffer neither modifies nor removes its content.
C30_SingleAppendPerFile ==
  [][/\ Last.op = "close_file" =>
          LET dir == svn_dirent_dirname(Last.path)
              old == BufferOf(dirs, closed_dirs, dir)
              new == BufferOf(dirs', closed_dirs', dir)
          IN  /\ pc' = "failed" => new = old
              /\ IsPrefix(old, new)
              /\ \A k \in 1..Len(After(new, Len(old))) :
                   After(new, Len(old))[k].path = Last.path
      /\ \A q \in DirPaths :
          /\ Contiguous(BufferOf(dirs', closed_dirs', q))
          /\ \/ IsPrefix(BufferOf(dirs, closed_dirs, q),
                          BufferOf(dirs', closed_dirs', q))
             \/ \E k \in 1..Len(WrittenFor(q)) :
                  IsPrefix(BufferOf(dirs, closed_dirs, q),
                           WrittenFor(q)[k].cmds)]_vars

\* block is all that merge_file builds for the file of baton fb: commands of
\* this file only, from the entry update to the target revision that comes
\* first to the entry update that comes last, which only removals of
\* temporary files follow.
CompleteBlock(block, fb) ==
  /\ Len(block) >= 2
  /\ \A k \in 1..Len(block) : block[k].path = fb.path
  /\ block[1] = loggy_tweak_entry(fb.path, eb.target_revision, fb.new_URL)
  /\ \E k \in 2..Len(block) :
       /\ block[k].op = "modify_entry"
       /\ \A j \in (k + 1)..Len(block) : block[j].op = "remove"

\* C30, amended: the commands of a file reach the buffer of the parent
\* directory in one append, the last thing merge_file does.  A close_file
\* leaves the earlier content of the buffer in place and adds nothing or the
\* complete block of its file; one that fails before it gets to the bump of
\* the directory (in its checks or inside merge_file) adds nothing, and one
\* that gets to the bump, whether it then succeeds or fails in the bump or in
\* building the notification, has added the complete block.  The commands of
\* two files are never interleaved in a buffer, also when both files are
\* open at the same time; and a step that does not flush the buffer neither
\* modifies nor removes its content.
C30_WholeBlockOrNothing ==
  [][/\ Last.op = "close_file" =>
          LET dir == svn_dirent_dirname(Last.path)
              old == BufferOf(dirs, closed_dirs, dir)
              new == BufferOf(dirs', closed_dirs', dir)
              block == After(new, Len(old))
              fb == CHOOSE f \in files : f.path = Last.path
              reached_bump == bump'[dir] # bump[dir]
          IN  /\ IsPrefix(old, new)
              /\ block = <<>> \/ CompleteBlock(block, fb)
              /\ (pc' = "failed" /\ ~reached_bump) => block = <<>>
              /\ (reached_bump /\ ~fb.skipped) => CompleteBlock(block, fb)
      /\ \A q \in DirPaths :
          /\ Contiguous(BufferOf(dirs', closed_dirs', q))
          /\ \/ IsPrefix(BufferOf(dirs, closed_dirs, q),
                          BufferOf(dirs', closed_dirs', q))
             \/ \E k \in 1..Len(WrittenFor(q)) :
                  IsPrefix(BufferOf(dirs, closed_dirs, q),
                           WrittenFor(q)[k].cmds)]_vars

\* The first file was still open when the second was opened and closed, and
\* its own close_file then failed in building the notification: the buffer
\* of the anchor directory holds the block of the second file and, after
\* it, the block of the first.
C30_Witness ==
  /\ hist.last = [op |-> "close_file", path |-> <<"f">>]
  /\ pc = "failed" /\ err = "io_error"
  /\ dirs # <<>> /\ dirs[1].path = <<>>
  /\ \E n \in 1..Len(dirs[1].log_accum) :
       /\ n >= 2 /\ n + 2 <= Len(dirs[1].log_accum)
       /\ \A k \in 1..n : dirs[1].log_accum[k].path = ExtraFile
       /\ \A k \in (n + 1)..Len(dirs[1].log_accum) :
            dirs[1].log_accum[k].path = <<"f">>

----------------------------------------------------------------------------
\* The children of p the drive announced as absent.
Announced(h, p) == Children(p) \cap (h.visited \ h.driven)
\* complete_directory went through the entries of p: p lies in no skipped
\* tree, or in a deleted one, and is not the anchor of an edit with a named
\* target.
SweptBy(k) ==
  LET p == NewlyCompleted[k].path
  IN  /\ pc' # "failed"
      /\ ~(InSkipped(p) /\ ~in_deleted_tree(St, p, TRUE))
      /\ ~(p = <<>> /\ eb.target # "")

\* C31: once complete_directory went through the entries of a directory, an
\* absent child entry is there exactly when its revision is the target
\* revision: every child that absent_file or absent_directory announced in
\* this edit is still there, absent and at the target revision; an absent
\* entry of the working copy at another revision that the drive did not name
\* is gone.
C31_AbsentSurvivesIffAnnounced ==
  [][\A k \in 1..Len(NewlyCompleted) :
       SweptBy(k) =>
         LET p == NewlyCompleted[k].path
         IN  /\ \A c \in Children(p) :
                  (entries'[c].present /\ entries'[c].absent)
                    => entries'[c].revision = eb'.target_revision
             /\ \A c \in Announced(hist', p) :
                  /\ entries'[c].present /\ entries'[c].absent
                  /\ entries'[c].revision = eb'.target_revision
             /\ \A c \in Children(p) :
                  (/\ hist.wc0[c].present /\ hist.wc0[c].absent
                   /\ hist.wc0[c].revision # eb'.target_revision
                   /\ c \notin hist'.visited \cup hist'.deleted)
                    => ~entries'[c].present]_vars

\* The root was completed: the file that was absent at revision 1 is gone,
\* the directory announced as absent is there at revision 2.
C31_Witness ==
  /\ hist.last = [op |-> "close_directory", path |-> <<>>]
  /\ Len(hist.completed) = 1 /\ hist.completed[1].path = <<>>
  /\ pc = "driving" /\ eb.target = "" /\ eb.target_revision = 2
  /\ hist.wc0[<<"f">>].present /\ hist.wc0[<<"f">>].absent
  /\ hist.wc0[<<"f">>].revision = 1
  /\ ~entries[<<"f">>].present
  /\ <<"d">> \in Announced(hist, <<>>)
  /\ entries[<<"d">>].present /\ entries[<<"d">>].absent
  /\ entries[<<"d">>].revision = 2

----------------------------------------------------------------------------
\* C32 as stated: after the close_edit of an edit that never called
\* open_root, the anchor directory is not incomplete, whether or not the
\* edit has a named target.
C32_AnchorCompleteWithoutRoot ==
  (pc = "done" /\ ~eb.root_opened) => ~entries[<<>>].incomplete

\* C32: after the close_edit of an edit that never called open_root, the
\* anchor directory is not incomplete when the edit has no named target;
\* when it has one, the incomplete flag of the anchor is what it was before
\* the edit.
C32_AnchorCompleteWithoutTarget ==
  (pc = "done" /\ ~eb.root_opened) =>
    entries[<<>>].incomplete = (eb.target # "" /\ hist.wc0[<<>>].incomplete)

\* An edit without a target and without open_root ended on an anchor that
\* was incomplete.
C32_Witness ==
  /\ pc = "done" /\ ~eb.root_opened /\ eb.target = ""
  /\ hist.last.op = "close_edit"
  /\ hist.wc0[<<>>].incomplete /\ ~entries[<<>>].incomplete

----------------------------------------------------------------------------
\* C33 as stated: when complete_directory runs on a directory under a sticky
\* depth, the depth of the directory becomes the requested depth if that is
\* infinity or the directory is the target of the edit, and stays what it was
\* in every other case.
C33_StickyDepthInstalled ==
  [][\A k \in 1..Len(NewlyCompleted) :
       (eb.depth_is_sticky /\ pc' # "failed") =>
         LET p == NewlyCompleted[k].path
         IN  entries'[p].depth =
               IF eb.requested_depth = "infinity"
                  \/ p = TargetPath(eb.target)
               THEN eb.requested_depth ELSE entries[p].depth]_vars

\* C33: when complete_directory marks a directory complete under a sticky
\* depth, the depth of the directory becomes the requested depth if that is
\* infinity, or if the directory is the target of the edit and the requested
\* depth is deeper than the depth it has; in every other case, and when
\* complete_directory returns before it marks the directory, the depth of
\* the directory stays what it was.
C33_StickyDepthUpgrades ==
  [][\A k \in 1..Len(NewlyCompleted) :
       (eb.depth_is_sticky /\ pc' # "failed") =>
         LET p == NewlyCompleted[k].path
         IN  entries'[p].depth =
               IF /\ SweptBy(k)
                  /\ \/ eb.requested_depth = "infinity"
                     \/ /\ p = TargetPath(eb.target)
                        /\ DepthRank(eb.requested_depth)
                             > DepthRank(entries[p].depth)
               THEN eb.requested_depth ELSE entries[p].depth]_vars

\* The target d of depth files was completed by an update with the sticky
\* depth immediates.
C33_Witness ==
  /\ eb.target = "d" /\ eb.depth_is_sticky
  /\ eb.requested_depth = "immediates"
  /\ hist.wc0[<<"d">>].depth = "files"
  /\ \E k \in 1..Len(hist.completed) : hist.completed[k].path = <<"d">>
  /\ hist.last = [op |-> "close_directory", path |-> <<"d">>]
  /\ pc = "driving"
  /\ entries[<<"d">>].depth = "immediates"

----------------------------------------------------------------------------
\* The file baton of path among fs.
BatonOf(fs, path) == CHOOSE fb \in fs : fb.path = path
\* The source of the delta of fb does not have the checksum expected of it.
SourceMismatch(fb) ==
  /\ fb.handler_baton.expected_source_checksum # NoChecksum
  /\ fb.handler_baton.expected_source_checksum # SourceChecksum(St, fb)

\* C34: a file baton gets its new text base and its checksum in the call of
\* the window handler that takes the last window without an error of the
\* delta engine and finds the checksum of the source as expected, and only
\* there, both together; a call with an error on its window, and the call
\* for the last window of a source with another checksum, fails, removes the
\* new text base from the temporary area and leaves the baton without new
\* text base and checksum.
C34_NewTextBaseIffDeltaApplied ==
  [][/\ \A fb \in files' :
          /\ fb.new_text_base_path <=> fb.actual_checksum # NoChecksum
          /\ (/\ fb.new_text_base_path
              /\ ~\E old \in files : old.path = fb.path
                                     /\ old.new_text_base_path)
               => /\ Last = [op |-> "window_handler", path |-> fb.path]
                  /\ hist'.window = [window |-> "null", apply_err |-> FALSE]
                  /\ ~SourceMismatch(BatonOf(files, fb.path))
                  /\ pc' # "failed"
                  /\ fb.path \in pristine'.tmp
     /\ Last.op = "window_handler" =>
          LET old == BatonOf(files, Last.path)
              new == BatonOf(files', Last.path)
              w == hist'.window
              ended == w.window = "null" \/ w.apply_err
          IN  /\ (~ended) =>
                   /\ pc' # "failed" /\ new.handler_baton.open
                   /\ ~new.new_text_base_path
              /\ (ended /\ ~w.apply_err /\ ~SourceMismatch(old)) =>
                   /\ pc' # "failed" /\ new.new_text_base_path
                   /\ new.actual_checksum # NoChecksum
              /\ (ended /\ (w.apply_err \/ SourceMismatch(old))) =>
                   /\ pc' = "failed"
                   /\ err' \in {"svndiff_corrupt_window", "corrupt_text_base"}
                   /\ Last.path \notin pristine'.tmp
                   /\ ~new.new_text_base_path
                   /\ new.actual_checksum = NoChecksum]_vars

\* The handler took the last window of a delta against a text base that does
\* not have the checksum the producer gave, and failed.
C34_Witness ==
  /\ hist.last.op = "window_handler"
  /\ hist.window = [window |-> "null", apply_err |-> FALSE]
  /\ pc = "failed" /\ err = "corrupt_text_base"
  /\ hist.last.path \notin pristine.tmp
  /\ \E fb \in files : /\ fb.path = hist.last.path
                        /\ ~fb.new_text_base_path
                        /\ fb.actual_checksum = NoChecksum

----------------------------------------------------------------------------
\* The path lies in a recorded locally deleted tree and is not scheduled for
\* replacement.
DeletedNotReplaced(q) ==
  /\ in_deleted_tree(St, q, TRUE)
  /\ ~(entries[q].present /\ entries[q].schedule = "replace")
\* cmds has a command that writes the working file of path.
WritesWorkingFile(cmds, path) ==
  \E k \in 1..Len(cmds) : cmds[k].op = "copy" /\ cmds[k].path = path
\* cmds has a command of merge_file for path.
MergedIn(cmds, path) ==
  \E k \in 1..Len(Staged(cmds)) : Staged(cmds)[k].path = path

\* C35: a file that the edit adds or opens, and does not skip, in a locally
\* deleted tree, and that is not scheduled for replacement, gets no command
\* that writes its working file from close_file, and when the log of its
\* directory has run it is scheduled for deletion at the target revision; a
\* directory the edit adds or opens in a locally deleted tree, not scheduled
\* for replacement, is scheduled for deletion at the target revision when
\* its close has run.
C35_DeletedTreeStaysDeleted ==
  [][/\ \A fb \in files :
          (/\ Last = [op |-> "close_file", path |-> fb.path]
           /\ pc' # "failed" /\ ~fb.skipped
           /\ DeletedNotReplaced(fb.path))
            => LET dir == svn_dirent_dirname(fb.path)
               IN  ~WritesWorkingFile(
                      After(BufferOf(dirs', closed_dirs', dir),
                            Len(BufferOf(dirs, closed_dirs, dir))), fb.path)
     /\ RanTopLog =>
          /\ \A q \in Children(TopPath) \cap FilePaths :
               (/\ MergedIn(Pending(logfiles, dirs, TopPath), q)
                /\ DeletedNotReplaced(q))
                 => /\ entries'[q].present
                    /\ entries'[q].schedule = "delete"
                    /\ entries'[q].revision = eb.target_revision
                    /\ disk'[q] = disk[q]
          /\ (TopPath \in hist.driven /\ DeletedNotReplaced(TopPath))
               => /\ entries'[TopPath].present
                  /\ entries'[TopPath].schedule = "delete"
                  /\ entries'[TopPath].revision = eb.target_revision]_vars

----------------------------------------------------------------------------
\* How often the notification n was received.
Count(ns, n) == IF n \in DOMAIN ns THEN ns[n] ELSE 0
RECURSIVE Total(_, _)
Total(ns, S) ==
  IF S = {} THEN 0
  ELSE LET n == CHOOSE x \in S : TRUE IN ns[n] + Total(ns, S \ {n})
\* The number of notifications the step emitted.
Emitted == Total(notifications', DOMAIN notifications')
             - Total(notifications, DOMAIN notifications)
SkipActions == {"skip", "tree_conflict"}

\* C36: the step that puts a path in skipped_trees emits one notification, a
\* skip or a tree conflict for that path, and no other; a step on a path
\* below a path of skipped_trees emits no notification, and neither does the
\* close of a path of skipped_trees.
C36_OneNotificationPerSkippedTree ==
  [][/\ \A r \in skipped_trees' \ skipped_trees :
          pc' # "failed" =>
            /\ Emitted = 1
            /\ \E a \in SkipActions :
                 Count(notifications', [action |-> a, path |-> r])
                   = Count(notifications, [action |-> a, path |-> r]) + 1
     /\ (\E r \in skipped_trees : StrictlyBelow(Last.path, r))
          => notifications' = notifications
     /\ (Last.op \in {"close_directory", "close_file"}
         /\ Last.path \in skipped_trees)
          => notifications' = notifications]_vars

\* What holds of the notifications: the same for the subtrees whose root
\* lies in no locally deleted tree.
C36_OneNotificationOutsideDeleted ==
  [][/\ \A r \in skipped_trees' \ skipped_trees :
          (pc' # "failed" /\ ~in_deleted_tree(St, r, FALSE)) =>
            /\ Emitted = 1
            /\ \E a \in SkipActions :
                 Count(notifications', [action |-> a, path |-> r])
                   = Count(notifications, [action |-> a, path |-> r]) + 1
     /\ UnderSkipped(Last.path) => notifications' = notifications
     /\ (Last.op \in {"close_directory", "close_file"}
         /\ Last.path \in skipped_trees)
          => notifications' = notifications]_vars

----------------------------------------------------------------------------
\* The four detection rules of tree conflicts

ConflictActions == {"edit", "add", "delete", "replace"}

\* The local modifications of the node p: the file p itself, or the visible
\* versioned nodes of the directory p, p included, that are scheduled for a
\* change or whose text was modified.
LocalMods(p) ==
  {q \in Paths :
     /\ IsPrefix(p, q) /\ entries[q].present
     /\ (q = p /\ entries[p].kind = "file") \/ ~entry_is_hidden(entries[q])
     /\ \/ entries[q].schedule # "normal"
        \/ (entries[q].kind = "file" /\ disk[q].kind = "file"
            /\ disk[q].text \in {"local", "merged", "markers"})}

InsideDeletedTree(p) ==
  \E q \in deleted_trees : IsPrefix(q, p) /\ q # p

RuleReason(p, action) ==
  LET e == entries[p]
      gone == e.present /\ e.schedule \in {"delete", "replace"}
  IN  IF action = "add"
        THEN IF e.present /\ ~e.file_external_path THEN "added" ELSE "none"
      ELSE IF gone
        THEN IF InsideDeletedTree(p) THEN "none"
             ELSE IF e.schedule = "delete" THEN "deleted" ELSE "replaced"
      ELSE IF action \in {"delete", "replace"} /\ LocalMods(p) # {}
        THEN IF \A q \in LocalMods(p) : entries[q].schedule = "delete"
             THEN "deleted" ELSE "edited"
      ELSE "none"

\* C37: for every incoming action and every node of the working copy (an
\* add may also name a path that has no entry), check_tree_conflict yields
\* the reason of the four detection rules: deleted or replaced for an edit,
\* delete or replace of a locally deleted or replaced node outside the
\* recorded deleted trees and no conflict inside one; edited for a delete or
\* replace of a locally modified node, deleted when all its local
\* modifications are deletions; added for an add over an existing entry that
\* is not a file external; no conflict in every other case.
C37_ReasonOfDetectionRules ==
  \A p \in Paths, action \in ConflictActions :
    (entries[p].present \/ action = "add") =>
      check_tree_conflict(St, p, entries[p], action) = RuleReason(p, action)

\* A delete of the directory d, unchanged itself, whose only local
\* modification was the deletion of d/f, raised a conflict of reason deleted.
C37_Witness ==
  /\ hist.last = [op |-> "delete_entry", path |-> <<"d">>]
  /\ hist.wc0[<<"d">>].schedule = "normal"
  /\ hist.wc0[<<"d", "f">>].schedule = "delete"
  /\ <<"d">> \in hist.raised
  /\ conflicts.tree[<<"d">>] = "deleted"
----------------------------------------------------------------------------
\* Directories that are open and not yet complete

\* The directory was skipped: its bump_dir_info says so.
SkippedDir(p) == p \in DOMAIN bump /\ bump[p].skipped

CompletionRan(p) ==
  \E k \in 1..Len(hist.completed) : hist.completed[k].path = p

\* C38: at every point of a drive, also one at which the drive was
\* interrupted, every directory that open_root of an edit with an empty
\* target or open_directory opened without skipping it, and for which
\* complete_directory has not run yet, has incomplete set and the target
\* revision in its entry.
C38_OpenedDirIncompleteAtTarget ==
  \A p \in hist.opened :
    (~SkippedDir(p) /\ ~CompletionRan(p)) =>
      /\ entries[p].present
      /\ entries[p].incomplete
      /\ entries[p].revision = eb.target_revision
\* The drive was interrupted while d, at revision 1 before, was open: its
\* entry is incomplete at the target revision.
C38_Witness ==
  /\ pc = "halted"
  /\ <<"d">> \in hist.opened
  /\ ~SkippedDir(<<"d">>) /\ ~CompletionRan(<<"d">>)
  /\ hist.wc0[<<"d">>].revision = 1 /\ ~hist.wc0[<<"d">>].incomplete
  /\ entries[<<"d">>].incomplete
  /\ entries[<<"d">>].revision = 2
----------------------------------------------------------------------------
\* add_directory with copyfrom arguments

\* The entry and the directory on disk of the path are as they were.
Untouched(p) ==
  p \in Paths => (entries'[p] = entries[p] /\ disk'[p] = disk[p])

\* C39 as stated: add_directory with copyfrom arguments fails with
\* unsupported_feature, and leaves no new entry and no new administrative
\* area.
C39_CopyfromAlwaysUnsupported ==
  [][Last.op = "add_directory_copyfrom" =>
       /\ pc' = "failed" /\ err' = "unsupported_feature"
       /\ Untouched(Last.path)]_vars
----------------------------------------------------------------------------
\* The answer of the SSL server-trust file provider

\* The failure bits of a mask.
Bits(n) == {b \in FailureBits : BitAnd(n, b) # 0}

\* The failure bits the servers file tells the provider to ignore.
IgnoredBits ==
  (IF auth.cfg.ssl_ignore_invalid_date # NoSetting
      /\ strcasecmp_equal(auth.cfg.ssl_ignore_invalid_date, "true")
   THEN {SVN_AUTH_SSL_NOTYETVALID, SVN_AUTH_SSL_EXPIRED} ELSE {})
  \cup
  (IF auth.cfg.ssl_override_cert_hostname # NoSetting
      /\ strcasecmp_equal(auth.cfg.ssl_override_cert_hostname,
                          auth.cert_info.hostname)
   THEN {SVN_AUTH_SSL_CNMISMATCH} ELSE {})

\* The failures of the request that the settings do not override.
LeftBits == Bits(auth.asked.failures) \ IgnoredBits

\* The failures stored with the accepted certificate, as the provider read
\* them.
StoredBits ==
  IF auth.stored.has_failures
  THEN Bits(atoi(auth.stored.failures, auth.asked.overflow)) ELSE {}

\* The credentials file holds the presented certificate, accepted with all
\* the failures that are left.
StoredAccepts ==
  /\ auth.stored.present
  /\ auth.stored.ascii_cert = auth.cert_info.ascii_cert
  /\ LeftBits \subseteq StoredBits

\* C40: the file provider returns credentials exactly when the failure mask
\* it writes back is empty; the mask is empty when the settings override
\* every failure, and otherwise only when the credentials file holds the
\* text of the presented certificate together with every failure that is
\* left; in every other case the failures that are left are written back to
\* the parameters and no credentials are returned.
C40_CredentialsIffNoFailureLeft ==
  auth.pc = "answered" =>
    /\ auth.credentials.given <=> (auth.failures = 0)
    /\ LeftBits = {} => auth.failures = 0
    /\ (LeftBits # {} /\ auth.failures = 0) => StoredAccepts
    /\ auth.failures # 0 =>
         (Bits(auth.failures) = LeftBits /\ ~auth.credentials.given)

\* The provider gave credentials for a certificate of an unknown authority
\* because the credentials file held that certificate with that failure; the
\* file was written by an earlier save.
C40_Witness ==
  /\ auth.pc = "answered"
  /\ SVN_AUTH_SSL_UNKNOWNCA \in LeftBits
  /\ auth.stored.present /\ auth.stored.ascii_cert = "certB"
  /\ auth.credentials.given /\ auth.failures = 0
====
